---- MODULE Spec2Model ----
(***************************************************************************)
(* SafeCity (project1 frontend): route post-processing (smoothPath), the   *)
(* routing handler (handleGoClick / callBackendSafeRoute) and the incident *)
(* clustering (performDBSCAN).                                             *)
(*                                                                         *)
(* Numbers.  Route coordinates are integers in units chosen so that every  *)
(* division smoothPath performs (by 2 * segmentPoints^3 in the spline, by  *)
(* 4 in the Chaikin pass) is exact on the inputs the model draws.  Angles  *)
(* are integers in units of 1e-4 rad.  Incident coordinates are integers   *)
(* in micro-degrees, distances integers in metres.                         *)
(***************************************************************************)
EXTENDS Integers, Sequences, FiniteSets, TLC

VARIABLES
    \* ---- smoothPath ----
    points,        \* the argument of smoothPath
    smoothed,      \* its return value
    simplifiedPath,\* its local simplified when Stage 1 has run
    spc,           \* "ready" before the call, "done" after it
    \* ---- performDBSCAN ----
    incidents,     \* the incident list given to performDBSCAN
    epsilon,       \* its epsilon argument (metres)
    minPoints,     \* its minPoints argument
    clusters,      \* its return value
    dpc,           \* "ready" before the call, "done" after it
    \* ---- SafeRoutes component and one handleGoClick invocation ----
    rpc,               \* where the handler is: idle, an await, or done
    originName,        \* useState originName
    destinationName,   \* useState destinationName
    originPos,         \* useState originPos
    destPos,           \* useState destPos
    hotspots,          \* useState hotspots
    safeRoute,         \* useState safeRoute
    googleRoute,       \* useState googleRoute
    loadingRoute,      \* useState loadingRoute
    scoringHotspots,   \* the hotspots value the running handler closed over
    oCoords,           \* handler local oCoords
    dCoords,           \* handler local dCoords
    distanceKm,        \* handler local distanceKm
    safestGooglePath,  \* handler local safestGooglePath
    backendResp,       \* the response callBackendSafeRoute received
    backendOutcome,    \* what callBackendSafeRoute did: none, returned, threw
    backendPoints,     \* handler local backendPoints
    backendCalls,      \* number of safeRoute requests issued
    alerts,            \* the alert() boxes shown by the handler
    scoredRoutes,      \* handler local scoredRoutes, before the sort
    published,         \* every list setHotspots has been called with
    hotspotLoads,      \* number of setHotspots calls by the hotspot effect
    \* ---- risk of a point: scorePath and calculateRiskForLocation ----
    riskPath,          \* the path argument of scorePath
    riskField,         \* the hotspots argument of scorePath
    pathScore,         \* the last value scorePath returned
    kpc,               \* "stale" when riskField changed since, else "scored"
    riskLocation,      \* the (lat, lng) given to calculateRiskForLocation
    crimeHotspots,     \* its hotspots argument
    locationRisk,      \* its return value
    lpc,               \* "ready" before the call, "done" after it
    \* ---- SOSButton, SOSModal and its useSmartSOS hook ----
    modal,                 \* SOSButton isModalOpen: button, open, closed
    smartSOSEnabled,       \* SOSModal useState smartSOSEnabled
    location,              \* SOSModal useState location is set
    state,                 \* useSmartSOS useState state
    rendered,              \* what the closures of the last render captured
    dirty,                 \* a state update awaits its render
    timers,                \* the setInterval timers that are live
    countdownIntervalRef,  \* the timer the ref holds, 0 for null
    sessions,              \* the initAudio calls that are pending or looping
    currentSession,        \* the initAudio call of the last audio effect run
    audioContextRef,       \* the session whose open AudioContext the ref holds
    sinceShake,         \* time steps since lastShakeTimeRef was set
    lastDetection,         \* the detection the last step passed to startCountdown
    lastSOS,                \* the onSOSDetected call the last step made, if any
    \* ---- calculateProximityRisk  (utils/getNearestHotspots.ts) ----
    userPos,   \* (userLat, userLng) given to calculateProximityRisk
    nearHotspots,   \* its hotspots argument
    radiusMeters,   \* its radiusMeters argument
    proximityRisk,   \* its return value, in 1/RiskScale
    ppc,   \* "ready" before the call, "done" after it
    \* ---- ChatWidget  (components/Chat/ChatWidget.tsx) and AuthProvider ----
    user,   \* AuthProvider useState user: the e-mail, NoUser for null
    messages,   \* ChatWidget useState messages, empty while unmounted
    localStorage,   \* localStorage items by key
    awaiting,   \* getIntelligentResponse calls not yet settled
    \* ---- PoliceDashboard  (components/Police/PoliceDashboard.tsx) ----
    activeTab,   \* PoliceDashboard useState activeTab
    lastAlertId,   \* useState lastAlertId
    hasNewAlerts,   \* useState hasNewAlerts
    serverAlertId,   \* alertId of the newest alert the backend holds
    inFlight,   \* the lastAlertId captured by each fetchAlerts call not yet settled
    pollLastAlertId,   \* the lastAlertId the fetchAlerts of the running interval captured
    \* ---- safeFetch  (components/Citizen/CitizenDashboard.tsx) ----
    sfPhase,   \* where the call is: fetching, reading, waiting, returned, threw
    attempt,   \* the loop variable attempt
    elapsed,   \* time steps since the current attempt began
    waited,   \* time steps of the current retry delay that have passed
    lastError,   \* the local lastError
    sfResult   \* what the call returned or threw

smoothVars == <<points, smoothed, simplifiedPath, spc>>
dbscanVars == <<incidents, epsilon, minPoints, clusters, dpc>>
routeVars == <<rpc, originName, destinationName, originPos, destPos, hotspots,
               safeRoute, googleRoute, loadingRoute, scoringHotspots, oCoords,
               dCoords, distanceKm, safestGooglePath, backendResp,
               backendOutcome, backendPoints, backendCalls, alerts, hotspotLoads,
               scoredRoutes, published>>
riskVars == <<riskPath, riskField, pathScore, kpc,
              riskLocation, crimeHotspots, locationRisk, lpc>>
sosVars == <<modal, smartSOSEnabled, location, state, rendered, dirty, timers,
             countdownIntervalRef, sessions, currentSession, audioContextRef,
             sinceShake, lastDetection, lastSOS>>
proxVars == <<userPos, nearHotspots, radiusMeters, proximityRisk, ppc>>
chatVars == <<user, messages, localStorage, awaiting>>
policeVars == <<activeTab, lastAlertId, hasNewAlerts, serverAlertId, inFlight, pollLastAlertId>>
safeFetchVars == <<sfPhase, attempt, elapsed, waited, lastError, sfResult>>
vars == <<points, smoothed, simplifiedPath, spc, incidents, epsilon, minPoints, clusters, dpc,
          rpc, originName, destinationName, originPos, destPos, hotspots,
          safeRoute, googleRoute, loadingRoute, scoringHotspots, oCoords,
          dCoords, distanceKm, safestGooglePath, backendResp,
          backendOutcome, backendPoints, backendCalls, alerts, hotspotLoads,
          scoredRoutes, published,
          riskPath, riskField, pathScore, kpc,
          riskLocation, crimeHotspots, locationRisk, lpc,
          modal, smartSOSEnabled, location, state, rendered, dirty, timers,
          countdownIntervalRef, sessions, currentSession, audioContextRef,
          sinceShake, lastDetection, lastSOS,
          userPos, nearHotspots, radiusMeters, proximityRisk, ppc,
          user, messages, localStorage, awaiting,
          activeTab, lastAlertId, hasNewAlerts, serverAlertId, inFlight, pollLastAlertId,
          sfPhase, attempt, elapsed, waited, lastError, sfResult>>

(***************************************************************************)
(* Bounds                                                                  *)
(***************************************************************************)
MaxLen == 3        \* longest arbitrary point sequence given to smoothPath
MaxRun == 22       \* longest straight run (in grid steps) of a grid walk
MaxTail == 2       \* longest second leg (in grid steps) of a grid walk
MaxIncidents == 4  \* longest incident list given to performDBSCAN
MaxHotspotLoads == 1   \* hotspot refreshes during one routing request

(***************************************************************************)
(* Arithmetic helpers                                                      *)
(***************************************************************************)
Abs(x) == IF x < 0 THEN -x ELSE x

RECURSIVE Gcd(_, _)
Gcd(a, b) == IF b = 0 THEN a ELSE Gcd(b, a % b)

\* Math.atan2 in units of 1e-4 rad.  AngleScale is the fixed-point scale.
AngleScale == 10000
PiAngle == 31416
HalfPiAngle == 15708
QuarterPiAngle == 7854

\* arctan of z (|z| <= 0.4143, fixed point) by its Taylor series up to z^9
AtanSeries(z) ==
    LET z2 == (z * z) \div AngleScale
        t3 == (z * z2) \div AngleScale
        t5 == (t3 * z2) \div AngleScale
        t7 == (t5 * z2) \div AngleScale
        t9 == (t7 * z2) \div AngleScale
    IN  z - (t3 \div 3) + (t5 \div 5) - (t7 \div 7) + (t9 \div 9)

\* arctan(a / b) for 0 <= a <= b, b > 0; above tan(pi/8) it uses
\* arctan z = pi/4 - arctan((1 - z) / (1 + z))
AtanRatio(a, b) ==
    IF a * AngleScale <= 4142 * b
    THEN AtanSeries((a * AngleScale) \div b)
    ELSE QuarterPiAngle - AtanSeries(((b - a) * AngleScale) \div (b + a))

Atan2(y, x) ==
    IF x = 0 /\ y = 0 THEN 0
    ELSE LET g  == Gcd(Abs(y), Abs(x))
             ay == Abs(y) \div g
             ax == Abs(x) \div g
             first == IF ay <= ax THEN AtanRatio(ay, ax)
                      ELSE HalfPiAngle - AtanRatio(ax, ay)
             upper == IF x < 0 THEN PiAngle - first ELSE first
         IN  IF y < 0 THEN -upper ELSE upper

(***************************************************************************)
(* smoothPath  (SafeRoutes.tsx 135-214)                                    *)
(***************************************************************************)
segmentPoints == 10
iterations == 1
AngleThreshold == 870          \* 0.087 rad

\* one model grid step, in coordinate units
CoordUnit == 2 * segmentPoints * segmentPoints * segmentPoints * 4

Pt(la, ln) == [lat |-> la, lng |-> ln]

Last(s) == s[Len(s)]

\* Stage 1, the loop body for index i (1-based; the code's i runs 1..length-2)
RECURSIVE SimplifyFrom(_, _, _)
SimplifyFrom(pts, i, simplified) ==
    IF i > Len(pts) - 1 THEN simplified
    ELSE LET prev == Last(simplified)
             curr == pts[i]
             next == pts[i + 1]
             angle1 == Atan2(curr.lat - prev.lat, curr.lng - prev.lng)
             angle2 == Atan2(next.lat - curr.lat, next.lng - curr.lng)
             angleDiff == Abs(angle1 - angle2)
         IN  SimplifyFrom(pts, i + 1,
                 IF angleDiff > AngleThreshold
                 THEN Append(simplified, curr) ELSE simplified)

Simplify(pts) == Append(SimplifyFrom(pts, 2, <<pts[1]>>), Last(pts))

\* one coordinate of catmullRom at t = j / segmentPoints
CatmullRomCoord(c0, c1, c2, c3, j) ==
    LET s  == segmentPoints
        t1 == (c2 - c0) * j * s * s
        t2 == (2 * c0 - 5 * c1 + 4 * c2 - c3) * j * j * s
        t3 == (3 * c1 - c0 - 3 * c2 + c3) * j * j * j
    IN  (2 * c1 * s * s * s + t1 + t2 + t3) \div (2 * s * s * s)

catmullRom(p0, p1, p2, p3, j) ==
    Pt(CatmullRomCoord(p0.lat, p1.lat, p2.lat, p3.lat, j),
       CatmullRomCoord(p0.lng, p1.lng, p2.lng, p3.lng, j))

Max2(a, b) == IF a > b THEN a ELSE b
Min2(a, b) == IF a < b THEN a ELSE b

\* Stage 2: the spline points of segment i (1-based) of the simplified path
SplineSegment(simplified, i) ==
    LET p0 == simplified[Max2(1, i - 1)]
        p1 == simplified[i]
        p2 == simplified[i + 1]
        p3 == simplified[Min2(Len(simplified), i + 2)]
    IN  [k \in 1..segmentPoints |-> catmullRom(p0, p1, p2, p3, k - 1)]

RECURSIVE SplineFrom(_, _)
SplineFrom(simplified, i) ==
    IF i > Len(simplified) - 1 THEN <<Last(simplified)>>
    ELSE SplineSegment(simplified, i) \o SplineFrom(simplified, i + 1)

Spline(simplified) == SplineFrom(simplified, 1)

\* Stage 3: one Chaikin pass
ChaikinQ(p, q) == Pt((3 * p.lat + q.lat) \div 4, (3 * p.lng + q.lng) \div 4)
ChaikinR(p, q) == Pt((p.lat + 3 * q.lat) \div 4, (p.lng + 3 * q.lng) \div 4)

RECURSIVE ChaikinFrom(_, _)
ChaikinFrom(s, i) ==
    IF i > Len(s) - 1 THEN <<Last(s)>>
    ELSE <<ChaikinQ(s[i], s[i + 1]), ChaikinR(s[i], s[i + 1])>> \o ChaikinFrom(s, i + 1)

\* a corner-cutting pass that does not re-insert the first point
ChaikinPassNoPin(s) == ChaikinFrom(s, 1)

ChaikinPass(s) == <<s[1]>> \o ChaikinFrom(s, 1)

RECURSIVE ChaikinTimes(_, _)
ChaikinTimes(s, n) == IF n = 0 THEN s ELSE ChaikinTimes(ChaikinPass(s), n - 1)

smoothPath(pts) ==
    IF Len(pts) < 2 THEN pts
    ELSE ChaikinTimes(Spline(Simplify(pts)), iterations)

(***************************************************************************)
(* calculateDistance  (mockData.ts 205-214)                                *)
(*                                                                         *)
(* Latitudes and longitudes are integers in micro-degrees and the result   *)
(* is in whole metres, rounded up (the code returns km; epsilon is scaled  *)
(* alike).  The haversine is evaluated in its small-angle form             *)
(*   d^2 = dLat^2 + cos(lat1) * cos(lat2) * dLng^2                         *)
(* which agrees with it to the metre for separations up to FarMicro; a     *)
(* larger separation in either coordinate yields FarMetres.  dLng enters   *)
(* the haversine through sin(dLng/2)^2, which has period 360 degrees, so   *)
(* dLng is first reduced to [-180, 180).  A NaN argument gives NaN.        *)
(***************************************************************************)
NaNVal == 999999999                 \* stands for the IEEE NaN
IsNaN(x) == x = NaNVal

FarMicro == 200000                  \* 0.2 degrees
FarMetres == 22240
MicroPerTurn == 360000000

\* metres of arc per micro-degree on the sphere of radius R = 6371 km,
\* times 10000
ArcMetresE4 == 1112

\* cos of a latitude (micro-degrees), fixed point with scale AngleScale
CosMicro(lat) ==
    LET phi == ((lat \div 1000) * 1745) \div AngleScale
        p2 == (phi * phi) \div AngleScale
        p4 == (p2 * p2) \div AngleScale
        p6 == (p4 * p2) \div AngleScale
        p8 == ((p6 \div 10) * p2) \div (AngleScale \div 10)
    IN  AngleScale - (p2 \div 2) + (p4 \div 24) - (p6 \div 720) + (p8 \div 40320)

RECURSIVE SqrtBetween(_, _, _)
\* least r in lo..hi with r * r >= n
SqrtBetween(n, lo, hi) ==
    IF lo >= hi THEN lo
    ELSE LET mid == (lo + hi) \div 2
         IN  IF mid * mid >= n THEN SqrtBetween(n, lo, mid)
             ELSE SqrtBetween(n, mid + 1, hi)

SqrtCeil(n) == SqrtBetween(n, 0, 46340)

calculateDistance(lat1, lng1, lat2, lng2) ==
    IF IsNaN(lat1) \/ IsNaN(lng1) \/ IsNaN(lat2) \/ IsNaN(lng2) THEN NaNVal
    ELSE LET dLat == lat2 - lat1
             dLng == ((lng2 - lng1 + (MicroPerTurn \div 2)) % MicroPerTurn)
                        - (MicroPerTurn \div 2)
         IN  IF Abs(dLat) >= FarMicro \/ Abs(dLng) >= FarMicro THEN FarMetres
             ELSE LET north == (Abs(dLat) * ArcMetresE4) \div AngleScale
                      east  == (Abs(dLng) * ArcMetresE4) \div AngleScale
                      east1 == (east * CosMicro(lat1)) \div AngleScale
                      east2 == (east * CosMicro(lat2)) \div AngleScale
                  IN  SqrtCeil(north * north + east1 * east2)

\* the comparison  calculateDistance(...) <= epsilon  (false on NaN)
WithinEps(a, b, eps) ==
    LET d == calculateDistance(a.latitude, a.longitude, b.latitude, b.longitude)
    IN  ~IsNaN(d) /\ d <= eps

(***************************************************************************)
(* performDBSCAN  (mockData.ts 216-267)                                    *)
(***************************************************************************)
\* incidents.filter(other => calculateDistance(...) <= epsilon)
NeighborsOf(incs, inc, eps) ==
    SelectSeq(incs, LAMBDA other : WithinEps(inc, other, eps))

\* currentNeighbors.forEach(n => if (!visited.has(n.id)) {visited.add; queue.push})
RECURSIVE PushUnvisited(_, _, _, _)
PushUnvisited(ns, k, visited, queue) ==
    IF k > Len(ns) THEN [visited |-> visited, queue |-> queue]
    ELSE IF ns[k].id \notin visited
         THEN PushUnvisited(ns, k + 1, visited \cup {ns[k].id}, Append(queue, ns[k]))
         ELSE PushUnvisited(ns, k + 1, visited, queue)

\* the while (queue.length > 0) loop
RECURSIVE ExpandCluster(_, _, _, _, _, _, _)
ExpandCluster(incs, eps, minPts, queue, clusterIncidents, visited, clustered) ==
    IF queue = <<>>
    THEN [clusterIncidents |-> clusterIncidents, visited |-> visited,
          clustered |-> clustered]
    ELSE LET current == Head(queue)
             rest == Tail(queue)
         IN  IF current.id \in clustered
             THEN ExpandCluster(incs, eps, minPts, rest, clusterIncidents,
                                visited, clustered)
             ELSE LET currentNeighbors == NeighborsOf(incs, current, eps)
                      pushed == IF Len(currentNeighbors) >= minPts
                                THEN PushUnvisited(currentNeighbors, 1, visited, rest)
                                ELSE [visited |-> visited, queue |-> rest]
                  IN  ExpandCluster(incs, eps, minPts, pushed.queue,
                                    Append(clusterIncidents, current),
                                    pushed.visited, clustered \cup {current.id})

RECURSIVE SumLat(_, _)
SumLat(s, k) ==
    IF k > Len(s) THEN 0
    ELSE LET r == SumLat(s, k + 1)
         IN  IF IsNaN(r) \/ IsNaN(s[k].latitude) THEN NaNVal ELSE s[k].latitude + r

RECURSIVE SumLng(_, _)
SumLng(s, k) ==
    IF k > Len(s) THEN 0
    ELSE LET r == SumLng(s, k + 1)
         IN  IF IsNaN(r) \/ IsNaN(s[k].longitude) THEN NaNVal ELSE s[k].longitude + r

\* sum / length, to the micro-degree
Mean(sum, n) == IF IsNaN(sum) THEN NaNVal ELSE sum \div n

\* a cluster centred on its first member instead of the mean
MakeClusterFirstMember(clusterIncidents) ==
    [lat |-> clusterIncidents[1].latitude,
     lng |-> clusterIncidents[1].longitude,
     incidents |-> clusterIncidents]

MakeCluster(clusterIncidents) ==
    [lat |-> Mean(SumLat(clusterIncidents, 1), Len(clusterIncidents)),
     lng |-> Mean(SumLng(clusterIncidents, 1), Len(clusterIncidents)),
     incidents |-> clusterIncidents]

\* the forEach body without the density test on the seed
RECURSIVE DbscanFromSeedAll(_, _, _, _, _, _, _)
DbscanFromSeedAll(incs, eps, minPts, i, cl, visited, clustered) ==
    IF i > Len(incs) THEN cl
    ELSE LET incident == incs[i]
         IN  IF incident.id \in visited
             THEN DbscanFromSeedAll(incs, eps, minPts, i + 1, cl, visited, clustered)
             ELSE LET visited1 == visited \cup {incident.id}
                      neighbors == NeighborsOf(incs, incident, eps)
                      e == ExpandCluster(incs, eps, minPts, neighbors,
                                         <<>>, visited1, clustered)
                  IN  DbscanFromSeedAll(incs, eps, minPts, i + 1,
                          IF Len(e.clusterIncidents) > 0
                          THEN Append(cl, MakeCluster(e.clusterIncidents))
                          ELSE cl,
                          e.visited, e.clustered)

\* the incidents.forEach body, from index i on
RECURSIVE DbscanFrom(_, _, _, _, _, _, _)
DbscanFrom(incs, eps, minPts, i, cl, visited, clustered) ==
    IF i > Len(incs) THEN cl
    ELSE LET incident == incs[i]
         IN  IF incident.id \in visited
             THEN DbscanFrom(incs, eps, minPts, i + 1, cl, visited, clustered)
             ELSE LET visited1 == visited \cup {incident.id}
                      neighbors == NeighborsOf(incs, incident, eps)
                  IN  IF Len(neighbors) >= minPts
                      THEN LET e == ExpandCluster(incs, eps, minPts, neighbors,
                                                  <<>>, visited1, clustered)
                           IN  DbscanFrom(incs, eps, minPts, i + 1,
                                   IF Len(e.clusterIncidents) > 0
                                   THEN Append(cl, MakeCluster(e.clusterIncidents))
                                   ELSE cl,
                                   e.visited, e.clustered)
                      ELSE DbscanFrom(incs, eps, minPts, i + 1, cl, visited1, clustered)

performDBSCAN(incs, eps, minPts) == DbscanFrom(incs, eps, minPts, 1, <<>>, {}, {})

(***************************************************************************)
(* Inputs of performDBSCAN                                                 *)
(***************************************************************************)
Site(la, ln) == [latitude |-> la, longitude |-> ln]

\* a chain of sites 0.001 degrees (about 111 m) apart along a meridian,
\* starting at the first incident of the concrete scenario
ChainSites == {Site(12971000 + k * 1000, 77594000) : k \in 0..4}

\* the concrete scenario: three incidents within 150 m and one 5 km away
ScenarioA == Site(12971000, 77594000)
ScenarioB == Site(12971200, 77594200)
ScenarioC == Site(12970900, 77593800)
ScenarioFar == Site(13016000, 77594000)
ScenarioSites == {ScenarioA, ScenarioB, ScenarioC, ScenarioFar}

\* malformed coordinates: NaN, latitude above 90, longitude below -180
\* (the last is ScenarioA's meridian, one turn to the west)
BadSites == {Site(NaNVal, 77594000), Site(91000000, 77594000),
             Site(12971000, 77594000 - MicroPerTurn)}

WellFormed(inc) ==
    /\ ~IsNaN(inc.latitude) /\ ~IsNaN(inc.longitude)
    /\ inc.latitude >= -90000000 /\ inc.latitude <= 90000000
    /\ inc.longitude >= -180000000 /\ inc.longitude <= 180000000

\* incident records: the id is the position in the list
WithIds(sites) ==
    [k \in 1..Len(sites) |->
        [id |-> k, latitude |-> sites[k].latitude, longitude |-> sites[k].longitude]]

ListsOver(S, n) == UNION {[1..m -> S] : m \in 0..n}

IsPermutation(f, S) == {f[k] : k \in DOMAIN f} = S

ScenarioLists == {f \in [1..4 -> ScenarioSites] : IsPermutation(f, ScenarioSites)}

IncidentLists ==
    {WithIds(l) : l \in ListsOver(ChainSites, MaxIncidents)
                       \cup ListsOver({ScenarioA, ScenarioB} \cup BadSites, MaxIncidents)
                       \cup ScenarioLists}

EpsilonMetres == 150
MinPointsChoices == {2, 3}

(***************************************************************************)
(* scorePath  (SafeRoutes.tsx 362-378)                                     *)
(*                                                                         *)
(* google.maps.geometry.spherical.computeDistanceBetween is a library      *)
(* call.  Route coordinates live on a local grid whose step (CoordUnit)    *)
(* is half the backend's 0.001 degree step, about 55 m; the distance is    *)
(* the planar one on that grid, in whole metres, rounded down.             *)
(***************************************************************************)
MetresPerUnit == 55
defaultRadius == 150
Undefined == -1                     \* an absent (null / undefined) number

\* a ?? b
Nullish(a, b) == IF a = Undefined THEN b ELSE a

SqrtFloor(n) == LET r == SqrtCeil(n) IN IF r * r = n THEN r ELSE r - 1

computeDistanceBetween(p, q) ==
    LET north == (Abs(p.lat - q.lat) * MetresPerUnit) \div CoordUnit
        east  == (Abs(p.lng - q.lng) * MetresPerUnit) \div CoordUnit
    IN  SqrtFloor(north * north + east * east)

\* the inner loop keeping the largest intensity instead of adding them up
RECURSIVE ScorePointMax(_, _, _)
ScorePointMax(p, hs, k) ==
    IF k > Len(hs) THEN 0
    ELSE LET h == hs[k]
             rad == Nullish(h.radius, defaultRadius)
             d == computeDistanceBetween(p, Pt(h.lat, h.lng))
         IN  Max2(IF d < rad THEN Nullish(h.intensity, 1) ELSE 0, ScorePointMax(p, hs, k + 1))

\* the inner loop with the comparison turned round
RECURSIVE ScorePointOutside(_, _, _)
ScorePointOutside(p, hs, k) ==
    IF k > Len(hs) THEN 0
    ELSE LET h == hs[k]
             rad == Nullish(h.radius, defaultRadius)
             d == computeDistanceBetween(p, Pt(h.lat, h.lng))
         IN  (IF d > rad THEN Nullish(h.intensity, 1) ELSE 0) + ScorePointOutside(p, hs, k + 1)

\* the inner loop: the contribution of path point p
RECURSIVE ScorePoint(_, _, _)
ScorePoint(p, hs, k) ==
    IF k > Len(hs) THEN 0
    ELSE LET h == hs[k]
             rad == Nullish(h.radius, defaultRadius)
             d == computeDistanceBetween(p, Pt(h.lat, h.lng))
         IN  (IF d < rad THEN Nullish(h.intensity, 1) ELSE 0) + ScorePoint(p, hs, k + 1)

RECURSIVE ScoreFrom(_, _, _)
ScoreFrom(path, hs, i) ==
    IF i > Len(path) THEN 0
    ELSE ScorePoint(path[i], hs, 1) + ScoreFrom(path, hs, i + 1)

scorePath(path, hs) == ScoreFrom(path, hs, 1)

(***************************************************************************)
(* calculateRiskForLocation  (mockData.ts 349-379)                         *)
(*                                                                         *)
(* The code measures in kilometres; the model measures the distance and    *)
(* the radius in metres, which leaves the ratio distance / radiusKm as it  *)
(* is.  effectiveRisk is kept in units of 1 / RiskScale.                   *)
(***************************************************************************)
RiskScale == 1000

CrimeHotspot(la, ln, rad, risk) ==
    [centerLat |-> la, centerLng |-> ln, radiusMeters |-> rad, riskScore |-> risk]

NoHotspot == CrimeHotspot(Undefined, Undefined, Undefined, Undefined)

\* lines 358-363: riskScore * decay for a hotspot whose radius contains the
\* point, Undefined for one that is skipped.  With radiusMeters = 0 and
\* distance = 0 the decay is 1 - 0 / 0 = NaN.
effectiveRisk(lat, lng, hotspot) ==
    LET distance == calculateDistance(lat, lng, hotspot.centerLat, hotspot.centerLng)
        radius == hotspot.radiusMeters
    IN  IF IsNaN(distance) \/ ~(distance <= radius) THEN Undefined
        ELSE IF radius = 0 THEN NaNVal
        ELSE (hotspot.riskScore * (radius - distance) * RiskScale) \div radius

\* the forEach of lines 357-370, from hotspot k on
RECURSIVE MaxRiskFrom(_, _, _, _, _, _)
MaxRiskFrom(lat, lng, hs, k, maxRisk, nearestHotspot) ==
    IF k > Len(hs) THEN [maxRisk |-> maxRisk, nearestHotspot |-> nearestHotspot]
    ELSE LET e == effectiveRisk(lat, lng, hs[k])
         IN  IF e # Undefined /\ ~IsNaN(e) /\ e > maxRisk
             THEN MaxRiskFrom(lat, lng, hs, k + 1, e, hs[k])
             ELSE MaxRiskFrom(lat, lng, hs, k + 1, maxRisk, nearestHotspot)

\* lines 372-376
RiskLevelOf(risk) ==
    IF risk < 40 * RiskScale THEN "low"
    ELSE IF risk < 60 * RiskScale THEN "moderate"
    ELSE IF risk < 80 * RiskScale THEN "high"
    ELSE "critical"

calculateRiskForLocation(lat, lng, hs) ==
    LET r == MaxRiskFrom(lat, lng, hs, 1, 0, NoHotspot)
    IN  [riskLevel |-> RiskLevelOf(r.maxRisk), nearestHotspot |-> r.nearestHotspot]

(***************************************************************************)
(* callBackendSafeRoute  (SafeRoutes.tsx 54-85)                            *)
(*                                                                         *)
(* A response is [net, ok, shape, pts]: net = FALSE when fetch rejects,    *)
(* ok is res.ok, shape tells what data.route.points is, pts its points.    *)
(***************************************************************************)
Response(net, ok, shape, pts) == [net |-> net, ok |-> ok, shape |-> shape, pts |-> pts]

NoResponse == Response(FALSE, FALSE, "none", <<>>)

\* shapes of data?.route?.points
\*   "missing"   no JSON body, no route or no points, or not an array
\*   "arrays"    [[lat, lng], ...]
\*   "objects"   [{lat, lng}, ...] or [{latitude, longitude}, ...]
\*   "unknown"   an array of something else
Threw == [threw |-> TRUE, pts |-> <<>>]
Returned(pts) == [threw |-> FALSE, pts |-> pts]

callBackendSafeRoute(resp) ==
    IF ~resp.net THEN Threw
    ELSE IF ~resp.ok \/ resp.shape = "missing" THEN Threw
    ELSE IF Len(resp.pts) > 0 /\ resp.shape = "arrays" THEN Returned(resp.pts)
    ELSE IF Len(resp.pts) = 0 THEN Returned(<<>>)
    ELSE IF resp.shape = "objects" THEN Returned(resp.pts)
    ELSE Threw

(***************************************************************************)
(* handleGoClick, its pure parts  (SafeRoutes.tsx 305-339)                 *)
(***************************************************************************)
\* the map scoring each alternative after the first against the latest
\* hotspots state instead of the list the handler closed over
ScoredRoutesLatest(routes, hs) ==
    [k \in 1..Len(routes) |->
        [score |-> scorePath(routes[k], IF k = 1 THEN hs ELSE hotspots),
         pathPoints |-> routes[k]]]

\* googleResult.routes.map(route => ({route, score, pathPoints}))
ScoredRoutes(routes, hs) ==
    [k \in 1..Len(routes) |-> [score |-> scorePath(routes[k], hs),
                               pathPoints |-> routes[k]]]

\* Array.prototype.sort with (a, b) => a.score - b.score is stable:
\* insertion of x behind every element whose score is not larger
RECURSIVE InsertByScore(_, _)
InsertByScore(sorted, x) ==
    IF sorted = <<>> THEN <<x>>
    ELSE IF Head(sorted).score - x.score <= 0
         THEN <<Head(sorted)>> \o InsertByScore(Tail(sorted), x)
         ELSE <<x>> \o sorted

RECURSIVE SortByScore(_)
SortByScore(s) ==
    IF s = <<>> THEN <<>>
    ELSE InsertByScore(SortByScore(SubSeq(s, 1, Len(s) - 1)), Last(s))

SafestGooglePath(routes, hs) ==
    IF Len(routes) > 0 THEN SortByScore(ScoredRoutes(routes, hs))[1].pathPoints
    ELSE <<>>

BackendLimitKm == 50
FarAlertKm == 100

\* the backend guard with the limit of the long-distance alert
CallsBackendFarLimit(km) == km <= FarAlertKm

\* if (distanceKm <= 50)
CallsBackend(km) == km <= BackendLimitKm

\* a choice that takes any non-empty backend answer
ChosenRouteNonEmpty(bp, sgp) == IF Len(bp) > 0 THEN bp ELSE sgp

\* backendPoints && backendPoints.length > 1 ? backendPoints : safestGooglePath
ChosenRoute(bp, sgp) == IF Len(bp) > 1 THEN bp ELSE sgp

(***************************************************************************)
(* Inputs of a routing request                                             *)
(***************************************************************************)
NullPoint == [lat |-> Undefined, lng |-> Undefined]     \* a null RoutePoint
NoDistance == Undefined

UserLocation == Pt(0, 0)
OriginChoices == {Pt(0, 0)}
DestChoices == {Pt(4 * CoordUnit, 4 * CoordUnit)}

OriginNames == {"", "My Current Location", "MG Road"}
DestinationNames == {"", "Forum Mall"}

\* paths a route source may answer with for that origin and destination:
\* joining them exactly (diagonal, with corners, direct), or running
\* between the road / grid points nearest to them, one unit away
PathDiagonal ==
    <<Pt(0, 0), Pt(2 * CoordUnit, 2 * CoordUnit), Pt(4 * CoordUnit, 4 * CoordUnit)>>
PathCorner ==
    <<Pt(0, 0), Pt(2 * CoordUnit, 0), Pt(4 * CoordUnit, 0),
      Pt(4 * CoordUnit, 2 * CoordUnit), Pt(4 * CoordUnit, 4 * CoordUnit)>>
PathDirect == <<Pt(0, 0), Pt(4 * CoordUnit, 4 * CoordUnit)>>
PathSnapped ==
    <<Pt(0, CoordUnit), Pt(2 * CoordUnit, 2 * CoordUnit), Pt(4 * CoordUnit, 3 * CoordUnit)>>
PathPool == {PathDiagonal, PathCorner, PathDirect, PathSnapped}

MaxGoogleRoutes == 2
GoogleResults == UNION {[1..n -> PathPool] : n \in 0..MaxGoogleRoutes}

Hotspot(la, ln, rad, int) == [lat |-> la, lng |-> ln, radius |-> rad, intensity |-> int]
HotspotCentre == Hotspot(2 * CoordUnit, 2 * CoordUnit, 150, 5)
HotspotCorner == Hotspot(4 * CoordUnit, 0, Undefined, Undefined)
HotspotSets == {<<>>, <<HotspotCentre>>, <<HotspotCorner>>, <<HotspotCentre, HotspotCorner>>}

BackendResponses ==
    {Response(FALSE, FALSE, "missing", <<>>),            \* fetch rejects
     Response(TRUE, FALSE, "missing", <<>>),             \* HTTP error, {detail}
     Response(TRUE, FALSE, "objects", PathDiagonal),     \* HTTP error with points
     Response(TRUE, TRUE, "missing", <<>>),              \* no points array
     Response(TRUE, TRUE, "unknown", <<Pt(0, 0), Pt(0, 0)>>),
     Response(TRUE, TRUE, "objects", <<>>),              \* points: []
     Response(TRUE, TRUE, "objects", <<Pt(0, 0)>>),      \* a single point
     Response(TRUE, TRUE, "arrays", <<Pt(0, 0)>>)}
    \cup {Response(TRUE, TRUE, sh, pth) : sh \in {"arrays", "objects"}, pth \in PathPool}

\* results of computeDistanceBetween(origin, destination) / 1000
DistanceKmChoices == {20, 50, 51, 100, 101}

(***************************************************************************)
(* Inputs of smoothPath                                                    *)
(***************************************************************************)
GridCoords == {0, CoordUnit, 2 * CoordUnit}
GridPts == {Pt(la, ln) : la \in GridCoords, ln \in GridCoords}

ShortPaths == UNION {[1..n -> GridPts] : n \in 0..MaxLen}

\* the 8 moves of the routing grid
Dirs8 == {d \in {-1, 0, 1} \X {-1, 0, 1} : d # <<0, 0>>}

\* a grid walk: n1 steps in direction d1, then n2 steps in direction d2
GridWalk(n1, d1, n2, d2) ==
    [k \in 1..(n1 + n2 + 1) |->
        IF k <= n1 + 1
        THEN Pt((k - 1) * d1[1] * CoordUnit, (k - 1) * d1[2] * CoordUnit)
        ELSE Pt((n1 * d1[1] + (k - 1 - n1) * d2[1]) * CoordUnit,
                (n1 * d1[2] + (k - 1 - n1) * d2[2]) * CoordUnit)]

GridWalks == {GridWalk(n1, d1, n2, d2) :
                 n1 \in 1..MaxRun, d1 \in Dirs8, n2 \in 0..MaxTail, d2 \in Dirs8}

\* gentle bends: long steps east or west that drift one unit north or south
MaxGentleSteps == 3
GentleSteps == {<<0, 12>>, <<1, 12>>, <<-1, 12>>, <<1, 24>>, <<-1, 24>>,
                <<0, -12>>, <<1, -12>>, <<-1, -12>>}

RECURSIVE StepsFrom(_, _, _)
\* the points reached from p by the steps st[k], st[k + 1], ...
StepsFrom(p, st, k) ==
    IF k > Len(st) THEN <<p>>
    ELSE <<p>> \o StepsFrom(Pt(p.lat + st[k][1] * CoordUnit,
                               p.lng + st[k][2] * CoordUnit), st, k + 1)

GentlePaths ==
    {StepsFrom(Pt(0, 0), st, 1) :
        st \in UNION {[1..n -> GentleSteps] : n \in 2..MaxGentleSteps}}

SmoothInputs == ShortPaths \cup GridWalks \cup GentlePaths

(***************************************************************************)
(* Specification of smoothPath as a call                                   *)
(***************************************************************************)
SmoothIdle ==
    /\ points = <<>>
    /\ smoothed = <<>>
    /\ simplifiedPath = <<>>
    /\ spc = "idle"
DbscanIdle ==
    /\ incidents = <<>>
    /\ epsilon = 0
    /\ minPoints = 0
    /\ clusters = <<>>
    /\ dpc = "idle"

ScoreIdle ==
    /\ riskPath = <<>>
    /\ riskField = <<>>
    /\ pathScore = Undefined
    /\ kpc = "idle"

LocationIdle ==
    /\ riskLocation = NullPoint
    /\ crimeHotspots = <<>>
    /\ locationRisk = [riskLevel |-> "", nearestHotspot |-> NoHotspot]
    /\ lpc = "idle"

RouteIdle ==
    /\ rpc = "unmounted"
    /\ originName = ""
    /\ destinationName = ""
    /\ originPos = NullPoint
    /\ destPos = NullPoint
    /\ hotspots = <<>>
    /\ safeRoute = <<>>
    /\ googleRoute = [set |-> FALSE, routes |-> <<>>]
    /\ loadingRoute = FALSE
    /\ scoringHotspots = <<>>
    /\ oCoords = NullPoint
    /\ dCoords = NullPoint
    /\ distanceKm = NoDistance
    /\ safestGooglePath = <<>>
    /\ backendResp = NoResponse
    /\ backendOutcome = "none"
    /\ backendPoints = <<>>
    /\ backendCalls = 0
    /\ alerts = {}
    /\ hotspotLoads = 0
    /\ scoredRoutes = <<>>
    /\ published = {}

RiskIdle ==
    /\ ScoreIdle
    /\ LocationIdle

(***************************************************************************)
(* useSmartSOS  (hooks/useSmartSOS.ts), records and bounds                 *)
(***************************************************************************)
MaxTimers == 2        \* setInterval timers alive at once
MaxSessions == 1      \* initAudio calls pending or looping at once
MaxBelowZero == 1     \* how far below 0 a timer that is never cleared counts
LongAgo == 6          \* time steps after which elapsed time is no longer counted

CountdownStart == 10
IntervalMs == 1000
DebounceMs == 2000
TimeStep == 500       \* milliseconds that pass in one step of the clock
IntervalSteps == IntervalMs \div TimeStep

InitialState == [isCountingDown |-> FALSE, countdown |-> CountdownStart,
                 detectionType |-> "null"]

\* what a render's closures capture: state.isCountingDown (startCountdown)
\* and whether location is set (handleSendSOS, passed as onSOSDetected)
Closure(counting, loc) == [counting |-> counting, loc |-> loc]

\* a timer: its callback's count, the time steps until it fires next, the
\* location its handleSendSOS captured, and whether Cancel was clicked
\* after it was started
NoTimer == [live |-> FALSE, count |-> 0, due |-> 0, cancelled |-> FALSE, loc |-> FALSE]
NoInvocation == [by |-> "none"]
NoSession == [status |-> "free", closure |-> Closure(FALSE, FALSE)]

SosIdle ==
    /\ modal = "absent"
    /\ smartSOSEnabled = FALSE
    /\ location = FALSE
    /\ state = InitialState
    /\ rendered = Closure(FALSE, FALSE)
    /\ dirty = FALSE
    /\ timers = [t \in 1..MaxTimers |-> NoTimer]
    /\ countdownIntervalRef = 0
    /\ sessions = [a \in 1..MaxSessions |-> NoSession]
    /\ currentSession = 0
    /\ audioContextRef = 0
    /\ sinceShake = LongAgo
    /\ lastDetection = "none"
    /\ lastSOS = NoInvocation

(***************************************************************************)
(* calculateProximityRisk  (utils/getNearestHotspots.ts)                   *)
(***************************************************************************)
ProxIdle ==
    /\ userPos = <<0, 0>>
    /\ nearHotspots = <<>>
    /\ radiusMeters = 0
    /\ proximityRisk = Undefined
    /\ ppc = "idle"

(***************************************************************************)
(* ChatWidget  (components/Chat/ChatWidget.tsx), records and bounds        *)
(***************************************************************************)
MaxMessages == 5      \* longest message list a session builds or restores
MaxAwaiting == 1      \* getIntelligentResponse calls pending at once

\* e-mail addresses, as sequences of characters
Emails == {<<"a", ".", "b", "@", "x">>,
           <<"a", "_", "b", "@", "x">>,
           <<"c", "@", "x">>}
NoUser == <<>>

\* lines 103, 123, 207: user.email.replace(/[@.]/g, '_')
SanitizeEmail(email) ==
    [k \in 1..Len(email) |-> IF email[k] \in {"@", "."} THEN "_" ELSE email[k]]

StorageKey(email) == <<"safecity_chat_history_">> \o SanitizeEmail(email)

StorageKeys == {StorageKey(e) : e \in Emails}

NoItem == <<>>        \* localStorage.getItem returns null

\* a chat message; by is the e-mail of the session that wrote it
Message(role, by) == [role |-> role, by |-> by]

\* lines 85-92: the greeting every mount starts with
Greeting == Message("bot", NoUser)

ChatIdle ==
    /\ user = NoUser
    /\ messages = <<>>
    /\ localStorage = [k \in StorageKeys |-> NoItem]
    /\ awaiting = 0

(***************************************************************************)
(* PoliceDashboard  (components/Police/PoliceDashboard.tsx)                *)
(***************************************************************************)
Tabs == {"map", "analytics", "patrols", "sos"}
NoAlertId == 0        \* the empty string of lastAlertId; alert ids are 1, 2, ...

PoliceIdle ==
    /\ activeTab = "unmounted"
    /\ lastAlertId = NoAlertId
    /\ hasNewAlerts = FALSE
    /\ serverAlertId = NoAlertId
    /\ inFlight = {}
    /\ pollLastAlertId = NoAlertId

(***************************************************************************)
(* safeFetch  (components/Citizen/CitizenDashboard.tsx 52-68)              *)
(***************************************************************************)
NoError == [kind |-> "null", attempt |-> 0]
NoResult == [outcome |-> "pending"]

SafeFetchIdle ==
    /\ sfPhase = "idle"
    /\ attempt = 0
    /\ elapsed = 0
    /\ waited = 0
    /\ lastError = NoError
    /\ sfResult = NoResult

InitSmooth ==
    /\ points \in SmoothInputs
    /\ smoothed = <<>>
    /\ simplifiedPath = <<>>
    /\ spc = "ready"
    /\ DbscanIdle
    /\ RouteIdle
    /\ RiskIdle
    /\ SosIdle
    /\ SafeFetchIdle
    /\ PoliceIdle
    /\ ChatIdle
    /\ ProxIdle

SmoothPathCall ==
    /\ spc = "ready"
    /\ smoothed' = smoothPath(points)
    /\ simplifiedPath' = IF Len(points) < 2 THEN <<>> ELSE Simplify(points)
    /\ spc' = "done"
    /\ UNCHANGED points
    /\ UNCHANGED dbscanVars
    /\ UNCHANGED routeVars
    /\ UNCHANGED riskVars
    /\ UNCHANGED sosVars
    /\ UNCHANGED safeFetchVars
    /\ UNCHANGED policeVars
    /\ UNCHANGED chatVars
    /\ UNCHANGED proxVars

NextSmooth == SmoothPathCall

SpecSmooth == InitSmooth /\ [][NextSmooth]_vars

(***************************************************************************)
(* Specification of performDBSCAN as a call                                *)
(***************************************************************************)
InitDbscan ==
    /\ incidents \in IncidentLists
    /\ epsilon = EpsilonMetres
    /\ minPoints \in MinPointsChoices
    /\ clusters = <<>>
    /\ dpc = "ready"
    /\ SmoothIdle
    /\ RouteIdle
    /\ RiskIdle
    /\ SosIdle
    /\ SafeFetchIdle
    /\ PoliceIdle
    /\ ChatIdle
    /\ ProxIdle

PerformDBSCANCall ==
    /\ dpc = "ready"
    /\ clusters' = performDBSCAN(incidents, epsilon, minPoints)
    /\ dpc' = "done"
    /\ UNCHANGED <<incidents, epsilon, minPoints>>
    /\ UNCHANGED smoothVars
    /\ UNCHANGED routeVars
    /\ UNCHANGED riskVars
    /\ UNCHANGED sosVars
    /\ UNCHANGED safeFetchVars
    /\ UNCHANGED policeVars
    /\ UNCHANGED chatVars
    /\ UNCHANGED proxVars

NextDbscan == PerformDBSCANCall

SpecDbscan == InitDbscan /\ [][NextDbscan]_vars

(***************************************************************************)
(* The SafeRoutes component: one handleGoClick invocation, step by step    *)
(* between its awaits, and the hotspot effect  (SafeRoutes.tsx 217-360)    *)
(***************************************************************************)
InitRoute ==
    /\ rpc = "idle"
    /\ originName \in OriginNames
    /\ destinationName \in DestinationNames
    \* "Use my current location" sets originPos and the name together;
    \* typing any other name clears originPos
    /\ originPos = IF originName = "My Current Location" THEN UserLocation ELSE NullPoint
    /\ destPos = NullPoint
    /\ hotspots \in HotspotSets
    /\ safeRoute = <<>>
    /\ googleRoute = [set |-> FALSE, routes |-> <<>>]
    /\ loadingRoute = FALSE
    /\ scoringHotspots = <<>>
    /\ oCoords = NullPoint
    /\ dCoords = NullPoint
    /\ distanceKm = NoDistance
    /\ safestGooglePath = <<>>
    /\ backendResp = NoResponse
    /\ backendOutcome = "none"
    /\ backendPoints = <<>>
    /\ backendCalls = 0
    /\ alerts = {}
    /\ hotspotLoads = 0
    /\ scoredRoutes = <<>>
    /\ published = {hotspots}
    /\ SmoothIdle
    /\ DbscanIdle
    /\ RiskIdle
    /\ SosIdle
    /\ SafeFetchIdle
    /\ PoliceIdle
    /\ ChatIdle
    /\ ProxIdle

otherVars == <<points, smoothed, simplifiedPath, spc, incidents, epsilon, minPoints, clusters, dpc,
               riskPath, riskField, pathScore, kpc,
               riskLocation, crimeHotspots, locationRisk, lpc,
               modal, smartSOSEnabled, location, state, rendered, dirty, timers,
               countdownIntervalRef, sessions, currentSession, audioContextRef,
               sinceShake, lastDetection, lastSOS,
          userPos, nearHotspots, radiusMeters, proximityRisk, ppc,
          user, messages, localStorage, awaiting,
          activeTab, lastAlertId, hasNewAlerts, serverAlertId, inFlight, pollLastAlertId,
          sfPhase, attempt, elapsed, waited, lastError, sfResult>>

\* the hotspot effect's fetch resolves (or the parent passes new hotspots)
\* and setHotspots publishes a whole formatted list
HotspotsLoaded ==
    /\ rpc # "unmounted"
    /\ hotspotLoads < MaxHotspotLoads
    /\ \E hs \in HotspotSets : hotspots' = hs
    /\ hotspotLoads' = hotspotLoads + 1
    /\ published' = published \cup {hotspots'}
    /\ UNCHANGED scoredRoutes
    /\ UNCHANGED <<rpc, originName, destinationName, originPos, destPos,
                   safeRoute, googleRoute, loadingRoute, scoringHotspots,
                   oCoords, dCoords, distanceKm, safestGooglePath, backendResp,
                   backendOutcome, backendPoints, backendCalls, alerts>>
    /\ UNCHANGED otherVars

\* lines 247-251: a name is missing
GoClickMissingInput ==
    /\ rpc = "idle"
    /\ originName = "" \/ destinationName = ""
    /\ alerts' = alerts \cup {"missingInput"}
    /\ rpc' = "done"
    /\ UNCHANGED <<originName, destinationName, originPos, destPos, hotspots,
                   safeRoute, googleRoute, loadingRoute, scoringHotspots,
                   oCoords, dCoords, distanceKm, safestGooglePath, backendResp,
                   backendOutcome, backendPoints, backendCalls, hotspotLoads>>
    /\ UNCHANGED <<scoredRoutes, published>>
    /\ UNCHANGED otherVars

\* lines 252-267: up to the first await
GoClick ==
    /\ rpc = "idle"
    /\ originName # "" /\ destinationName # ""
    /\ loadingRoute' = TRUE
    /\ safeRoute' = <<>>
    /\ googleRoute' = [set |-> FALSE, routes |-> <<>>]
    /\ scoringHotspots' = hotspots
    /\ IF originPos # NullPoint /\ originName = "My Current Location"
       THEN oCoords' = originPos /\ rpc' = "geocodeDestination"
       ELSE oCoords' = oCoords /\ rpc' = "geocodeOrigin"
    /\ UNCHANGED <<originName, destinationName, originPos, destPos, hotspots,
                   dCoords, distanceKm, safestGooglePath, backendResp,
                   backendOutcome, backendPoints, backendCalls, alerts,
                   hotspotLoads>>
    /\ UNCHANGED <<scoredRoutes, published>>
    /\ UNCHANGED otherVars

\* lines 353-359: catch and finally
RoutingFails ==
    /\ alerts' = alerts \cup {"routeError"}
    /\ loadingRoute' = FALSE
    /\ rpc' = "done"

GeocodeOriginResolves ==
    /\ rpc = "geocodeOrigin"
    /\ \E p \in OriginChoices : oCoords' = p /\ originPos' = p
    /\ rpc' = "geocodeDestination"
    /\ UNCHANGED <<originName, destinationName, destPos, hotspots, safeRoute,
                   googleRoute, loadingRoute, scoringHotspots, dCoords,
                   distanceKm, safestGooglePath, backendResp, backendOutcome,
                   backendPoints, backendCalls, alerts, hotspotLoads>>
    /\ UNCHANGED <<scoredRoutes, published>>
    /\ UNCHANGED otherVars

GeocodeOriginRejects ==
    /\ rpc = "geocodeOrigin"
    /\ RoutingFails
    /\ UNCHANGED <<originName, destinationName, originPos, destPos, hotspots,
                   safeRoute, googleRoute, scoringHotspots, oCoords, dCoords,
                   distanceKm, safestGooglePath, backendResp, backendOutcome,
                   backendPoints, backendCalls, hotspotLoads>>
    /\ UNCHANGED <<scoredRoutes, published>>
    /\ UNCHANGED otherVars

\* lines 270-302: destination known, distance measured, Directions asked
GeocodeDestinationResolves ==
    /\ rpc = "geocodeDestination"
    /\ \E p \in DestChoices : dCoords' = p /\ destPos' = p
    /\ \E km \in DistanceKmChoices :
          /\ distanceKm' = km
          /\ alerts' = IF km > FarAlertKm THEN alerts \cup {"tooFar"} ELSE alerts
    /\ rpc' = "directions"
    /\ UNCHANGED <<originName, destinationName, originPos, hotspots, safeRoute,
                   googleRoute, loadingRoute, scoringHotspots, oCoords,
                   safestGooglePath, backendResp, backendOutcome,
                   backendPoints, backendCalls, hotspotLoads>>
    /\ UNCHANGED <<scoredRoutes, published>>
    /\ UNCHANGED otherVars

GeocodeDestinationRejects ==
    /\ rpc = "geocodeDestination"
    /\ RoutingFails
    /\ UNCHANGED <<originName, destinationName, originPos, destPos, hotspots,
                   safeRoute, googleRoute, scoringHotspots, oCoords, dCoords,
                   distanceKm, safestGooglePath, backendResp, backendOutcome,
                   backendPoints, backendCalls, hotspotLoads>>
    /\ UNCHANGED <<scoredRoutes, published>>
    /\ UNCHANGED otherVars

\* lines 334-359 with the given backendPoints: smooth, publish, finally
Finish(bp, sgp) ==
    /\ safeRoute' = smoothPath(ChosenRoute(bp, sgp))
    /\ loadingRoute' = FALSE
    /\ rpc' = "done"

\* lines 303-332: Directions answered; score the alternatives; then either
\* issue the safeRoute request or skip it and finish
DirectionsResolves ==
    /\ rpc = "directions"
    /\ \E routes \in GoogleResults :
          LET sgp == SafestGooglePath(routes, scoringHotspots)
          IN  /\ googleRoute' = [set |-> TRUE, routes |-> routes]
              /\ scoredRoutes' = ScoredRoutes(routes, scoringHotspots)
              /\ safestGooglePath' = sgp
              /\ IF CallsBackend(distanceKm)
                 THEN /\ backendCalls' = backendCalls + 1
                      /\ rpc' = "backend"
                      /\ UNCHANGED <<safeRoute, loadingRoute>>
                 ELSE /\ Finish(<<>>, sgp)
                      /\ UNCHANGED backendCalls
    /\ UNCHANGED <<originName, destinationName, originPos, destPos, hotspots,
                   scoringHotspots, oCoords, dCoords, distanceKm, backendResp,
                   backendOutcome, backendPoints, alerts, hotspotLoads>>
    /\ UNCHANGED published
    /\ UNCHANGED otherVars

DirectionsRejects ==
    /\ rpc = "directions"
    /\ RoutingFails
    /\ UNCHANGED <<originName, destinationName, originPos, destPos, hotspots,
                   safeRoute, googleRoute, scoringHotspots, oCoords, dCoords,
                   distanceKm, safestGooglePath, backendResp, backendOutcome,
                   backendPoints, backendCalls, hotspotLoads>>
    /\ UNCHANGED <<scoredRoutes, published>>
    /\ UNCHANGED otherVars

\* lines 326-339: callBackendSafeRoute settles (a throw is caught and
\* leaves backendPoints empty), then the route is chosen and published
BackendSettles ==
    /\ rpc = "backend"
    /\ \E resp \in BackendResponses :
          LET r == callBackendSafeRoute(resp)
              bp == IF r.threw THEN <<>> ELSE r.pts
          IN  /\ backendResp' = resp
              /\ backendOutcome' = IF r.threw THEN "threw" ELSE "returned"
              /\ backendPoints' = bp
              /\ Finish(bp, safestGooglePath)
    /\ UNCHANGED <<originName, destinationName, originPos, destPos, hotspots,
                   googleRoute, scoringHotspots, oCoords, dCoords, distanceKm,
                   safestGooglePath, backendCalls, alerts, hotspotLoads>>
    /\ UNCHANGED <<scoredRoutes, published>>
    /\ UNCHANGED otherVars

NextRoute ==
    \/ HotspotsLoaded
    \/ GoClickMissingInput
    \/ GoClick
    \/ GeocodeOriginResolves
    \/ GeocodeOriginRejects
    \/ GeocodeDestinationResolves
    \/ GeocodeDestinationRejects
    \/ DirectionsResolves
    \/ DirectionsRejects
    \/ BackendSettles

SpecRoute == InitRoute /\ [][NextRoute]_vars

(***************************************************************************)
(* The risk of a point: scorePath over a hotspot list that grows and whose *)
(* intensities rise between calls, and calculateRiskForLocation as a call  *)
(***************************************************************************)
MaxField == 3             \* hotspots in the list given to scorePath
MaxCrimeHotspots == 3     \* hotspots given to calculateRiskForLocation

HotspotNear == Hotspot(3 * CoordUnit, 2 * CoordUnit, 150, 3)
HotspotFar == Hotspot(8 * CoordUnit, 8 * CoordUnit, 100, 9)
HotspotZero == Hotspot(0, 0, 150, 0)
FieldPool == {HotspotCentre, HotspotCorner, HotspotNear, HotspotFar, HotspotZero}
IntensityChoices == {2, 9}

RiskPaths == PathPool \cup {<<>>, <<Pt(2 * CoordUnit, 2 * CoordUnit)>>}

RiskLocations == {[lat |-> 12971000, lng |-> 77594000],
                  [lat |-> 12972000, lng |-> 77594000]}

CrimeHotspotPool ==
    {CrimeHotspot(12971000, 77594000, 500, 30),
     CrimeHotspot(12973000, 77594000, 1000, 50),
     CrimeHotspot(12971000, 77596000, 500, 90),
     CrimeHotspot(12971000, 77594000, 0, 70),
     CrimeHotspot(13071000, 77594000, 500, 100)}

InitRisk ==
    /\ \/ /\ riskPath \in RiskPaths
          /\ riskField \in HotspotSets
          /\ pathScore = Undefined
          /\ kpc = "stale"
          /\ LocationIdle
       \/ /\ riskLocation \in RiskLocations
          /\ crimeHotspots \in ListsOver(CrimeHotspotPool, MaxCrimeHotspots)
          /\ locationRisk = [riskLevel |-> "", nearestHotspot |-> NoHotspot]
          /\ lpc = "ready"
          /\ ScoreIdle
    /\ SmoothIdle
    /\ DbscanIdle
    /\ RouteIdle
    /\ SosIdle
    /\ SafeFetchIdle
    /\ PoliceIdle
    /\ ChatIdle
    /\ ProxIdle

restVars == <<points, smoothed, simplifiedPath, spc, incidents, epsilon, minPoints, clusters, dpc,
              rpc, originName, destinationName, originPos, destPos, hotspots,
              safeRoute, googleRoute, loadingRoute, scoringHotspots, oCoords,
              dCoords, distanceKm, safestGooglePath, backendResp,
              backendOutcome, backendPoints, backendCalls, alerts, hotspotLoads,
              scoredRoutes, published,
              modal, smartSOSEnabled, location, state, rendered, dirty, timers,
              countdownIntervalRef, sessions, currentSession, audioContextRef,
              sinceShake, lastDetection, lastSOS,
          userPos, nearHotspots, radiusMeters, proximityRisk, ppc,
          user, messages, localStorage, awaiting,
          activeTab, lastAlertId, hasNewAlerts, serverAlertId, inFlight, pollLastAlertId,
          sfPhase, attempt, elapsed, waited, lastError, sfResult>>

ScorePathCall ==
    /\ kpc = "stale"
    /\ pathScore' = scorePath(riskPath, riskField)
    /\ kpc' = "scored"
    /\ UNCHANGED <<riskPath, riskField, riskLocation, crimeHotspots, locationRisk, lpc>>
    /\ UNCHANGED restVars

\* a hotspot is added to the set
FieldAddHotspot ==
    /\ kpc \in {"stale", "scored"}
    /\ Len(riskField) < MaxField
    /\ \E h \in FieldPool : riskField' = Append(riskField, h)
    /\ kpc' = "stale"
    /\ UNCHANGED <<riskPath, pathScore, riskLocation, crimeHotspots, locationRisk, lpc>>
    /\ UNCHANGED restVars

\* the intensity of an existing hotspot is raised
FieldRaiseIntensity ==
    /\ kpc \in {"stale", "scored"}
    /\ \E k \in 1..Len(riskField) : \E v \in IntensityChoices :
          /\ riskField[k].intensity # Undefined
          /\ riskField[k].intensity < v
          /\ riskField' = [riskField EXCEPT ![k].intensity = v]
    /\ kpc' = "stale"
    /\ UNCHANGED <<riskPath, pathScore, riskLocation, crimeHotspots, locationRisk, lpc>>
    /\ UNCHANGED restVars

CalculateRiskCall ==
    /\ lpc = "ready"
    /\ locationRisk' = calculateRiskForLocation(riskLocation.lat, riskLocation.lng,
                                                crimeHotspots)
    /\ lpc' = "done"
    /\ UNCHANGED <<riskPath, riskField, pathScore, kpc, riskLocation, crimeHotspots>>
    /\ UNCHANGED restVars

NextRisk ==
    \/ ScorePathCall
    \/ FieldAddHotspot
    \/ FieldRaiseIntensity
    \/ CalculateRiskCall

SpecRisk == InitRisk /\ [][NextRisk]_vars

(***************************************************************************)
(* SOSButton, SOSModal and useSmartSOS                                     *)
(*                                                                         *)
(* handleSendSOS is a new function on every render of SOSModal, so         *)
(* startCountdown (useCallback on onSOSDetected) is new on every render    *)
(* and both detection effects are cleaned up and run again on every        *)
(* render.  A click (toggle, Cancel, close) is rendered and its effects    *)
(* are flushed before the click returns; an update from a timer, a sensor  *)
(* callback or a promise is rendered later (Render).  The platform adds    *)
(* the devicemotion listener directly (lines 101-103).  Time passes in     *)
(* steps of TimeStep ms; a timer's tick is the passing of its 1000 ms.     *)
(***************************************************************************)
InitSos ==
    /\ modal = "button"
    /\ smartSOSEnabled = FALSE
    /\ location = FALSE
    /\ state = InitialState
    /\ rendered = Closure(FALSE, FALSE)
    /\ dirty = FALSE
    /\ timers = [t \in 1..MaxTimers |-> NoTimer]
    /\ countdownIntervalRef = 0
    /\ sessions = [a \in 1..MaxSessions |-> NoSession]
    /\ currentSession = 0
    /\ audioContextRef = 0
    /\ sinceShake = LongAgo
    /\ lastDetection = "none"
    /\ lastSOS = NoInvocation
    /\ SmoothIdle
    /\ DbscanIdle
    /\ RouteIdle
    /\ RiskIdle
    /\ SafeFetchIdle
    /\ PoliceIdle
    /\ ChatIdle
    /\ ProxIdle

nonSosVars == <<smoothVars, dbscanVars, routeVars, riskVars, proxVars, chatVars, policeVars, safeFetchVars>>

\* setState(v): an update of a mounted component awaits its render
SetState(v) ==
    IF modal = "open" THEN state' = v /\ dirty' = TRUE
    ELSE UNCHANGED <<state, dirty>>

Lowest(S) == CHOOSE x \in S : \A y \in S : x <= y

\* lines 39-67 up to the setInterval call, as the closure cl runs it
startCountdown(cl, type) ==
    IF cl.counting
    THEN UNCHANGED <<state, dirty, timers, countdownIntervalRef>>
    ELSE LET free == {t \in 1..MaxTimers : ~timers[t].live}
         IN  /\ free # {}
             /\ SetState([isCountingDown |-> TRUE, countdown |-> CountdownStart,
                          detectionType |-> type])
             /\ timers' = [timers EXCEPT ![Lowest(free)] =
                              [live |-> TRUE, count |-> CountdownStart,
                               due |-> IntervalSteps,
                               cancelled |-> FALSE, loc |-> cl.loc]]
             /\ countdownIntervalRef' = Lowest(free)

\* the cleanup of the last audio effect run (lines 151-158): the loop is
\* cancelled if initAudio got as far as starting it, and the context the
\* ref holds is closed, which silences the loop reading from it
AfterCleanup ==
    IF currentSession = 0 THEN sessions
    ELSE [a \in 1..MaxSessions |->
            IF sessions[a].status = "running" /\ a \in {currentSession, audioContextRef}
            THEN NoSession ELSE sessions[a]]

\* both detection effects run again for a render with enabled = en and
\* closures cl: cleanup, then (lines 111-149) a new initAudio call
RunEffects(en, cl) ==
    LET cleaned == AfterCleanup
        free == {a \in 1..MaxSessions : cleaned[a].status = "free"}
    IN  /\ audioContextRef' = IF currentSession = 0 THEN audioContextRef ELSE 0
        /\ IF en
           THEN /\ free # {}
                /\ sessions' = [cleaned EXCEPT ![Lowest(free)] =
                                   [status |-> "pending", closure |-> cl]]
                /\ currentSession' = Lowest(free)
           ELSE /\ sessions' = cleaned
                /\ currentSession' = 0

\* SOSButton.tsx 12: the modal mounts; SOSModal asks for the position
OpenModal ==
    /\ modal = "button"
    /\ modal' = "open"
    /\ UNCHANGED <<smartSOSEnabled, location, state, rendered, dirty, timers,
                   countdownIntervalRef, sessions, currentSession,
                   audioContextRef, sinceShake>>
    /\ lastDetection' = "none"
    /\ lastSOS' = NoInvocation
    /\ UNCHANGED nonSosVars

\* SOSModal 181-197: a geolocation callback sets location
LocationResolves ==
    /\ modal = "open"
    /\ ~location
    /\ location' = TRUE
    /\ dirty' = TRUE
    /\ UNCHANGED <<modal, smartSOSEnabled, state, rendered, timers,
                   countdownIntervalRef, sessions, currentSession,
                   audioContextRef, sinceShake>>
    /\ lastDetection' = "none"
    /\ lastSOS' = NoInvocation
    /\ UNCHANGED nonSosVars

\* a pending update is rendered and the effects run again
Render ==
    /\ modal = "open"
    /\ dirty
    /\ dirty' = FALSE
    /\ rendered' = Closure(state.isCountingDown, location)
    /\ RunEffects(smartSOSEnabled, Closure(state.isCountingDown, location))
    /\ UNCHANGED <<modal, smartSOSEnabled, location, state, timers,
                   countdownIntervalRef, sinceShake>>
    /\ lastDetection' = "none"
    /\ lastSOS' = NoInvocation
    /\ UNCHANGED nonSosVars

\* the Smart SOS toggle is clicked
ToggleSmartSOS ==
    /\ modal = "open"
    /\ smartSOSEnabled' = ~smartSOSEnabled
    /\ dirty' = FALSE
    /\ rendered' = Closure(state.isCountingDown, location)
    /\ RunEffects(~smartSOSEnabled, Closure(state.isCountingDown, location))
    /\ UNCHANGED <<modal, location, state, timers, countdownIntervalRef,
                   sinceShake>>
    /\ lastDetection' = "none"
    /\ lastSOS' = NoInvocation
    /\ UNCHANGED nonSosVars

\* lines 26-36, from the Cancel button of the countdown popup; the timers
\* it leaves running are marked as started before a cancel
cancelCountdown ==
    /\ modal = "open"
    /\ rendered.counting
    /\ timers' = [t \in 1..MaxTimers |->
                    IF t = countdownIntervalRef \/ ~timers[t].live THEN NoTimer
                    ELSE [timers[t] EXCEPT !.cancelled = TRUE]]
    /\ countdownIntervalRef' = 0
    /\ state' = InitialState
    /\ dirty' = FALSE
    /\ rendered' = Closure(FALSE, location)
    /\ RunEffects(smartSOSEnabled, Closure(FALSE, location))
    /\ UNCHANGED <<modal, smartSOSEnabled, location, sinceShake>>
    /\ lastDetection' = "none"
    /\ lastSOS' = NoInvocation
    /\ UNCHANGED nonSosVars

\* SOSButton.tsx 24: onClose (the X button, or the timeout handleSendSOS
\* sets after a successful send); the hook unmounts: both effect cleanups
\* and lines 162-168, which clear the timer the ref holds
CloseModal ==
    /\ modal = "open"
    /\ modal' = "closed"
    /\ sessions' = AfterCleanup
    /\ audioContextRef' = IF currentSession = 0 THEN audioContextRef ELSE 0
    /\ currentSession' = 0
    /\ timers' = [t \in 1..MaxTimers |->
                    IF t = countdownIntervalRef THEN NoTimer ELSE timers[t]]
    /\ countdownIntervalRef' = 0
    /\ dirty' = FALSE
    /\ UNCHANGED <<smartSOSEnabled, location, state, rendered, sinceShake>>
    /\ lastDetection' = "none"
    /\ lastSOS' = NoInvocation
    /\ UNCHANGED nonSosVars

\* lines 73-90: a devicemotion event with magnitude > 20
handleMotion ==
    /\ modal = "open"
    /\ smartSOSEnabled
    /\ sinceShake * TimeStep > DebounceMs
    /\ sinceShake' = 0
    /\ lastDetection' = "shake"
    /\ startCountdown(rendered, "shake")
    /\ UNCHANGED <<modal, smartSOSEnabled, location, rendered, sessions,
                   currentSession, audioContextRef>>
    /\ lastSOS' = NoInvocation
    /\ UNCHANGED nonSosVars

\* line 120: getUserMedia resolves; lines 121-143 start the loop
GetUserMediaResolves ==
    /\ \E a \in 1..MaxSessions :
          /\ sessions[a].status = "pending"
          /\ sessions' = [sessions EXCEPT ![a].status = "running"]
          /\ audioContextRef' = a
    /\ UNCHANGED <<modal, smartSOSEnabled, location, state, rendered, dirty,
                   timers, countdownIntervalRef, currentSession, sinceShake>>
    /\ lastDetection' = "none"
    /\ lastSOS' = NoInvocation
    /\ UNCHANGED nonSosVars

\* lines 144-146: getUserMedia rejects
GetUserMediaRejects ==
    /\ \E a \in 1..MaxSessions :
          /\ sessions[a].status = "pending"
          /\ sessions' = [sessions EXCEPT ![a] = NoSession]
    /\ UNCHANGED <<modal, smartSOSEnabled, location, state, rendered, dirty,
                   timers, countdownIntervalRef, currentSession,
                   audioContextRef, sinceShake>>
    /\ lastDetection' = "none"
    /\ lastSOS' = NoInvocation
    /\ UNCHANGED nonSosVars

\* lines 130-141: an animation frame of a running loop with average > 150
checkAudioLevel ==
    /\ \E a \in 1..MaxSessions :
          /\ sessions[a].status = "running"
          /\ startCountdown(sessions[a].closure, "audio")
    /\ lastDetection' = "audio"
    /\ UNCHANGED <<modal, smartSOSEnabled, location, rendered, sessions,
                   currentSession, audioContextRef, sinceShake>>
    /\ lastSOS' = NoInvocation
    /\ UNCHANGED nonSosVars

\* the record of one onSOSDetected call by timer t: handleSendSOS posts
\* the SOS only if the location it captured was set (SOSModal 108-147)
Invocation(t) ==
    [by |-> "timer",
     cancelled |-> timers[t].cancelled,
     again |-> timers[t].count <= 0,
     sent |-> timers[t].loc,
     enabled |-> smartSOSEnabled,
     open |-> modal = "open"]

\* lines 50-66: the interval callback of timer t, when its 1000 ms are up;
\* a timer that is never cleared stops counting down at -MaxBelowZero
IntervalTick ==
    /\ \E t \in 1..MaxTimers :
          /\ timers[t].live
          /\ timers[t].due = 0
          /\ LET count == Max2(timers[t].count - 1, 0 - MaxBelowZero)
                 ticked == [timers[t] EXCEPT !.count = count, !.due = IntervalSteps]
             IN  IF count > 0
                 THEN /\ timers' = [timers EXCEPT ![t] = ticked]
                      /\ SetState([state EXCEPT !.countdown = count])
                      /\ UNCHANGED countdownIntervalRef
                      /\ lastSOS' = NoInvocation
                 ELSE /\ timers' = [u \in 1..MaxTimers |->
                                      IF u = countdownIntervalRef THEN NoTimer
                                      ELSE IF u = t THEN ticked
                                      ELSE timers[u]]
                      /\ countdownIntervalRef' = 0
                      /\ lastSOS' = Invocation(t)
                      /\ SetState(InitialState)
    /\ UNCHANGED <<modal, smartSOSEnabled, location, rendered, sessions,
                   currentSession, audioContextRef, sinceShake>>
    /\ lastDetection' = "none"
    /\ UNCHANGED nonSosVars

\* TimeStep ms pass, once the timers that are due have fired and React
\* has rendered the pending update
TimePasses ==
    /\ modal # "absent"
    /\ ~dirty
    /\ \A t \in 1..MaxTimers : timers[t].live => timers[t].due > 0
    /\ timers' = [t \in 1..MaxTimers |->
                    IF timers[t].live THEN [timers[t] EXCEPT !.due = @ - 1]
                    ELSE timers[t]]
    /\ sinceShake' = Min2(sinceShake + 1, LongAgo)
    /\ lastDetection' = "none"
    /\ UNCHANGED <<modal, smartSOSEnabled, location, state, rendered, dirty,
                   countdownIntervalRef, sessions, currentSession,
                   audioContextRef>>
    /\ lastSOS' = NoInvocation
    /\ UNCHANGED nonSosVars

NextSos ==
    \/ OpenModal
    \/ LocationResolves
    \/ Render
    \/ ToggleSmartSOS
    \/ cancelCountdown
    \/ CloseModal
    \/ handleMotion
    \/ GetUserMediaResolves
    \/ GetUserMediaRejects
    \/ checkAudioLevel
    \/ IntervalTick
    \/ TimePasses

SpecSos == InitSos /\ [][NextSos]_vars

(***************************************************************************)
(* calculateProximityRisk  (utils/getNearestHotspots.ts)                   *)
(***************************************************************************)
MaxCopies == 6             \* most hotspots at one distance in one list

DefaultRadiusMeters == 500
DefaultLimit == 10

ProxHotspot(la, ln, rs, cc) ==
    [lat |-> la, lng |-> ln, riskScore |-> rs, crimeCount |-> cc]

\* lines 23-42, in metres, coordinates in micro-degrees
haversineDistance(lat1, lng1, lat2, lng2) ==
    calculateDistance(lat1, lng1, lat2, lng2)

RECURSIVE MapDistance(_, _, _, _)
\* lines 81-84: .map from index k on
MapDistance(userLat, userLng, hs, k) ==
    IF k > Len(hs) THEN <<>>
    ELSE <<[hotspot |-> hs[k],
            distance |-> haversineDistance(userLat, userLng, hs[k].lat, hs[k].lng)]>>
         \o MapDistance(userLat, userLng, hs, k + 1)

RECURSIVE FilterWithin(_, _, _)
\* line 85: .filter(item.distance <= radiusMeters), false on NaN
FilterWithin(items, radius, k) ==
    IF k > Len(items) THEN <<>>
    ELSE (IF ~IsNaN(items[k].distance) /\ items[k].distance <= radius
          THEN <<items[k]>> ELSE <<>>) \o FilterWithin(items, radius, k + 1)

RECURSIVE InsertByDistance(_, _)
\* x goes after the items that are not farther than it (a stable sort)
InsertByDistance(sorted, x) ==
    IF sorted = <<>> THEN <<x>>
    ELSE IF x.distance < Head(sorted).distance THEN <<x>> \o sorted
    ELSE <<Head(sorted)>> \o InsertByDistance(Tail(sorted), x)

RECURSIVE SortByDistance(_, _)
\* line 86: .sort((a, b) => a.distance - b.distance), from index k on
SortByDistance(items, k) ==
    IF k < 1 THEN <<>>
    ELSE InsertByDistance(SortByDistance(items, k - 1), items[k])

\* line 87: .slice(0, limit)
Slice(items, limit) == SubSeq(items, 1, Min2(Len(items), limit))

\* lines 73-90
getNearestHotspots(userLat, userLng, hs, radius, limit) ==
    LET within == FilterWithin(MapDistance(userLat, userLng, hs, 1), radius, 1)
    IN  Slice(SortByDistance(within, Len(within)), limit)

Falsy(x) == x = Undefined \/ x = 0 \/ IsNaN(x)

\* lines 121-124: the weighted risk of one item, in 1/RiskScale
ProximityTerm(item, radius) ==
    LET riskScore == IF ~Falsy(item.hotspot.riskScore) THEN item.hotspot.riskScore
                     ELSE IF ~Falsy(item.hotspot.crimeCount) THEN item.hotspot.crimeCount
                     ELSE 0
    IN  IF radius = 0 THEN NaNVal
        ELSE (riskScore * (radius - item.distance) * RiskScale) \div radius

RECURSIVE ReduceTotal(_, _, _, _)
\* lines 120-125: .reduce from index k on with accumulator total
ReduceTotal(items, radius, k, total) ==
    IF k > Len(items) THEN total
    ELSE LET term == ProximityTerm(items[k], radius)
         IN  ReduceTotal(items, radius, k + 1,
                         IF IsNaN(total) \/ IsNaN(term) THEN NaNVal ELSE total + term)

\* lines 112-126; line 118 leaves limit to its default
calculateProximityRisk(userLat, userLng, hs, radius) ==
    ReduceTotal(getNearestHotspots(userLat, userLng, hs, radius, DefaultLimit),
                radius, 1, 0)

(***************************************************************************)
(* Inputs of calculateProximityRisk                                        *)
(***************************************************************************)
UserPositions == {<<12971600, 77594600>>}
RadiusChoices == {DefaultRadiusMeters, 250}

\* hotspots north of the user: 111 m, 222 m, 445 m and 556 m away
HsClose == ProxHotspot(12972600, 77594600, 80, Undefined)
HsMid   == ProxHotspot(12973600, 77594600, 0, 3)
HsEdge  == ProxHotspot(12975600, 77594600, Undefined, 5)
HsOut   == ProxHotspot(12976600, 77594600, 90, Undefined)

RECURSIVE Copies(_, _)
Copies(x, n) == IF n = 0 THEN <<>> ELSE <<x>> \o Copies(x, n - 1)

ProxLists ==
    {Copies(HsEdge, c) \o Copies(HsOut, o) \o Copies(HsClose, a) \o Copies(HsMid, m) :
        c \in 0..MaxCopies, o \in 0..1, a \in 0..MaxCopies, m \in 0..1}

InitProx ==
    /\ userPos \in UserPositions
    /\ nearHotspots \in ProxLists
    /\ radiusMeters \in RadiusChoices
    /\ proximityRisk = Undefined
    /\ ppc = "ready"
    /\ SmoothIdle
    /\ DbscanIdle
    /\ RouteIdle
    /\ RiskIdle
    /\ SosIdle
    /\ SafeFetchIdle
    /\ PoliceIdle
    /\ ChatIdle

nonProxVars == <<smoothVars, dbscanVars, routeVars, riskVars, sosVars, chatVars, policeVars, safeFetchVars>>

CalculateProximityRiskCall ==
    /\ ppc = "ready"
    /\ proximityRisk' = calculateProximityRisk(userPos[1], userPos[2],
                                               nearHotspots, radiusMeters)
    /\ ppc' = "done"
    /\ UNCHANGED <<userPos, nearHotspots, radiusMeters>>
    /\ UNCHANGED nonProxVars

NextProx == CalculateProximityRiskCall

SpecProx == InitProx /\ [][NextProx]_vars

(***************************************************************************)
(* ChatWidget  (components/Chat/ChatWidget.tsx): sessions and storage      *)
(***************************************************************************)
InitChat ==
    /\ user = NoUser
    /\ messages = <<>>
    /\ localStorage = [k \in StorageKeys |-> NoItem]
    /\ awaiting = 0
    /\ SmoothIdle
    /\ DbscanIdle
    /\ RouteIdle
    /\ RiskIdle
    /\ SosIdle
    /\ SafeFetchIdle
    /\ PoliceIdle
    /\ ProxIdle

nonChatVars == <<smoothVars, dbscanVars, routeVars, riskVars, sosVars, proxVars, policeVars, safeFetchVars>>

\* lines 121-126: the save effect, run for the message list msgs
SaveEffect(msgs) ==
    IF user # NoUser /\ Len(msgs) > 1
    THEN localStorage' = [localStorage EXCEPT ![StorageKey(user)] = msgs]
    ELSE UNCHANGED localStorage

\* AuthContext login: App mounts the ChatWidget, whose load effect
\* (lines 101-118) restores the item stored under the user's key; the save
\* effect then stores the restored list again
Login ==
    \E e \in Emails :
        /\ user = NoUser
        /\ user' = e
        /\ messages' = IF localStorage[StorageKey(e)] # NoItem
                       THEN localStorage[StorageKey(e)]
                       ELSE <<Greeting>>
        /\ awaiting' = 0
        /\ UNCHANGED localStorage
        /\ UNCHANGED nonChatVars

\* AuthContext logout: App unmounts the ChatWidget
Logout ==
    /\ user # NoUser
    /\ user' = NoUser
    /\ messages' = <<>>
    /\ awaiting' = 0
    /\ UNCHANGED localStorage
    /\ UNCHANGED nonChatVars

\* lines 549-564: the user's message is appended and a response awaited
handleSendMessage ==
    /\ user # NoUser
    /\ awaiting < MaxAwaiting
    /\ Len(messages) + 2 <= MaxMessages
    /\ messages' = Append(messages, Message("user", user))
    /\ awaiting' = awaiting + 1
    /\ SaveEffect(messages')
    /\ UNCHANGED user
    /\ UNCHANGED nonChatVars

\* lines 569-591: the response, or the fallback, is appended
BotResponds ==
    /\ user # NoUser
    /\ awaiting > 0
    /\ messages' = Append(messages, Message("bot", user))
    /\ awaiting' = awaiting - 1
    /\ SaveEffect(messages')
    /\ UNCHANGED user
    /\ UNCHANGED nonChatVars

\* lines 205-218, confirmed by the user
clearHistory ==
    /\ user # NoUser
    /\ localStorage' = [localStorage EXCEPT ![StorageKey(user)] = NoItem]
    /\ messages' = <<Greeting>>
    /\ UNCHANGED <<user, awaiting>>
    /\ UNCHANGED nonChatVars

NextChat ==
    \/ Login
    \/ Logout
    \/ handleSendMessage
    \/ BotResponds
    \/ clearHistory

SpecChat == InitChat /\ [][NextChat]_vars

(***************************************************************************)
(* PoliceDashboard: the SOS alert poll and the new-alerts badge            *)
(***************************************************************************)
MaxAlerts == 4        \* alerts the backend receives
MaxInFlight == 2      \* fetchAlerts calls not yet settled at once

\* the dashboard is mounted: the poll effect (lines 55-86) has made its
\* initial fetch and set its interval
InitPolice ==
    /\ activeTab = "map"
    /\ lastAlertId = NoAlertId
    /\ hasNewAlerts = FALSE
    /\ serverAlertId = NoAlertId
    /\ inFlight = {NoAlertId}
    /\ pollLastAlertId = NoAlertId
    /\ SmoothIdle
    /\ DbscanIdle
    /\ RouteIdle
    /\ RiskIdle
    /\ SosIdle
    /\ SafeFetchIdle
    /\ ProxIdle
    /\ ChatIdle

nonPoliceVars == <<smoothVars, dbscanVars, routeVars, riskVars, sosVars, proxVars, chatVars, safeFetchVars>>

\* a citizen's SOS reaches the backend; getAlerts lists it first
NewAlert ==
    /\ serverAlertId < MaxAlerts
    /\ serverAlertId' = serverAlertId + 1
    /\ UNCHANGED <<activeTab, lastAlertId, hasNewAlerts, inFlight, pollLastAlertId>>
    /\ UNCHANGED nonPoliceVars

\* line 83: the interval calls the fetchAlerts of the effect run that set it
PollTick ==
    /\ pollLastAlertId \notin inFlight
    /\ Cardinality(inFlight) < MaxInFlight
    /\ inFlight' = inFlight \cup {pollLastAlertId}
    /\ UNCHANGED <<activeTab, lastAlertId, hasNewAlerts, serverAlertId, pollLastAlertId>>
    /\ UNCHANGED nonPoliceVars

\* lines 58-73: the fetchAlerts call that captured lastAlertId = captured
\* gets its response; when lastAlertId changes, the poll effect runs again
\* (line 86): a new interval and an immediate fetch with the new value
FetchResolves ==
    \E captured \in inFlight :
        IF serverAlertId = NoAlertId
        THEN /\ inFlight' = inFlight \ {captured}
             /\ UNCHANGED <<activeTab, lastAlertId, hasNewAlerts, serverAlertId,
                            pollLastAlertId>>
             /\ UNCHANGED nonPoliceVars
        ELSE /\ hasNewAlerts' = IF captured # NoAlertId /\ serverAlertId # captured
                                THEN TRUE ELSE hasNewAlerts
             /\ lastAlertId' = serverAlertId
             /\ IF serverAlertId # lastAlertId
                THEN /\ pollLastAlertId' = serverAlertId
                     /\ inFlight' = (inFlight \ {captured}) \cup {serverAlertId}
                ELSE /\ inFlight' = inFlight \ {captured}
                     /\ UNCHANGED pollLastAlertId
             /\ UNCHANGED <<activeTab, serverAlertId>>
             /\ UNCHANGED nonPoliceVars

\* lines 74-76: the request fails
FetchRejects ==
    \E captured \in inFlight :
        /\ inFlight' = inFlight \ {captured}
        /\ UNCHANGED <<activeTab, lastAlertId, hasNewAlerts, serverAlertId,
                       pollLastAlertId>>
        /\ UNCHANGED nonPoliceVars

\* lines 216-249: a tab button is clicked; the effect of lines 89-93 runs
\* because activeTab changed
SelectTab ==
    \E tab \in Tabs :
        /\ tab # activeTab
        /\ activeTab' = tab
        /\ hasNewAlerts' = IF tab = "sos" THEN FALSE ELSE hasNewAlerts
        /\ UNCHANGED <<lastAlertId, serverAlertId, inFlight, pollLastAlertId>>
        /\ UNCHANGED nonPoliceVars

NextPolice ==
    \/ NewAlert
    \/ PollTick
    \/ FetchResolves
    \/ FetchRejects
    \/ SelectTab

\* the interval keeps firing and every request settles; nothing obliges
\* the user to click a tab
SpecPolice ==
    /\ InitPolice
    /\ [][NextPolice]_vars
    /\ WF_vars(PollTick)
    /\ WF_vars(FetchResolves \/ FetchRejects)

(***************************************************************************)
(* safeFetch: attempts, the 8 s timeout and the retry delays               *)
(***************************************************************************)
MaxElapsed == 10      \* time steps after which an attempt's time is no longer counted

maxRetries == 2
FetchTimeoutMs == 8000
RetryDelayMs == 1000
StepMs == 1000        \* milliseconds that pass in one step of the clock

JsonValues == {"json1", "json2"}

InitSafeFetch ==
    /\ sfPhase = "fetching"
    /\ attempt = 0
    /\ elapsed = 0
    /\ waited = 0
    /\ lastError = NoError
    /\ sfResult = NoResult
    /\ SmoothIdle
    /\ DbscanIdle
    /\ RouteIdle
    /\ RiskIdle
    /\ SosIdle
    /\ ProxIdle
    /\ ChatIdle
    /\ PoliceIdle

nonSafeFetchVars == <<smoothVars, dbscanVars, routeVars, riskVars, sosVars, proxVars, chatVars, policeVars>>

\* lines 62-65 and 67: the catch block for an error of the given kind
Catch(kind) ==
    /\ lastError' = [kind |-> kind, attempt |-> attempt]
    /\ IF attempt < maxRetries
       THEN /\ sfPhase' = "waiting"
            /\ waited' = 0
            /\ UNCHANGED sfResult
       ELSE /\ sfPhase' = "threw"
            /\ sfResult' = [outcome |-> "threw", error |-> lastError']
            /\ UNCHANGED waited
    /\ UNCHANGED <<attempt, elapsed>>

\* lines 58-60: fetch resolves with an ok response; the timeout is cleared
\* and the body is read
FetchOk ==
    /\ sfPhase = "fetching"
    /\ sfPhase' = "reading"
    /\ UNCHANGED <<attempt, elapsed, waited, lastError, sfResult>>
    /\ UNCHANGED nonSafeFetchVars

\* line 60: fetch resolves with a response that is not ok
FetchNotOk ==
    /\ sfPhase = "fetching"
    /\ Catch("http")
    /\ UNCHANGED nonSafeFetchVars

\* line 58: fetch rejects (network error)
FetchFails ==
    /\ sfPhase = "fetching"
    /\ Catch("network")
    /\ UNCHANGED nonSafeFetchVars

\* line 57: the timeout fires and aborts the pending fetch
TimeoutAborts ==
    /\ sfPhase = "fetching"
    /\ elapsed * StepMs >= FetchTimeoutMs
    /\ Catch("abort")
    /\ UNCHANGED nonSafeFetchVars

\* line 61: res.json() resolves
JsonResolves ==
    \E v \in JsonValues :
        /\ sfPhase = "reading"
        /\ sfPhase' = "returned"
        /\ sfResult' = [outcome |-> "returned", json |-> v, attempt |-> attempt]
        /\ UNCHANGED <<attempt, elapsed, waited, lastError>>
        /\ UNCHANGED nonSafeFetchVars

\* line 61: res.json() rejects (the body is not JSON, or the stream breaks)
JsonRejects ==
    /\ sfPhase = "reading"
    /\ Catch("json")
    /\ UNCHANGED nonSafeFetchVars

\* line 64 and line 54: the retry delay is over, the next attempt begins
NextAttempt ==
    /\ sfPhase = "waiting"
    /\ waited * StepMs >= RetryDelayMs * (attempt + 1)
    /\ attempt' = attempt + 1
    /\ elapsed' = 0
    /\ sfPhase' = "fetching"
    /\ UNCHANGED <<waited, lastError, sfResult>>
    /\ UNCHANGED nonSafeFetchVars

\* StepMs pass, once the timers that are due have fired
SafeFetchTimePasses ==
    /\ sfPhase \in {"fetching", "reading", "waiting"}
    /\ sfPhase = "fetching" => elapsed * StepMs < FetchTimeoutMs
    /\ sfPhase = "waiting" => waited * StepMs < RetryDelayMs * (attempt + 1)
    /\ elapsed' = IF sfPhase = "waiting" THEN elapsed ELSE Min2(elapsed + 1, MaxElapsed)
    /\ waited' = IF sfPhase = "waiting" THEN waited + 1 ELSE waited
    /\ UNCHANGED <<sfPhase, attempt, lastError, sfResult>>
    /\ UNCHANGED nonSafeFetchVars

NextSafeFetch ==
    \/ FetchOk
    \/ FetchNotOk
    \/ FetchFails
    \/ TimeoutAborts
    \/ JsonResolves
    \/ JsonRejects
    \/ NextAttempt
    \/ SafeFetchTimePasses

SpecSafeFetch == InitSafeFetch /\ [][NextSafeFetch]_vars

(***************************************************************************)
(* C1: the output of smoothPath starts with the input's first point and    *)
(* ends with the input's last point.                                       *)
(***************************************************************************)
EndpointsPinned ==
    (spc = "done" /\ Len(points) >= 1) =>
        /\ Len(smoothed) >= 1
        /\ smoothed[1] = points[1]
        /\ Last(smoothed) = Last(points)

\* a path with a kept corner went through all three stages
EndpointsPinnedWitness ==
    /\ spc = "done"
    /\ Len(points) >= 3
    /\ points[1] # Last(points)
    /\ Len(smoothed) = 2 * (2 * segmentPoints) + 2
    /\ smoothed[1] = points[1]
    /\ Last(smoothed) = Last(points)

(***************************************************************************)
(* C2: for every input of 3 or more points, smoothPath returns at least as *)
(* many points as it was given.                                            *)
(***************************************************************************)
LengthNotReduced ==
    (spc = "done" /\ Len(points) >= 3) => Len(smoothed) >= Len(points)

(***************************************************************************)
(* Vocabulary of the routing claims                                        *)
(***************************************************************************)
\* the map draws the green polyline when safeRoute.length > 1
RouteDisplayed == Len(safeRoute) > 1

\* the safe-route request was answered, and the answer is unusable: fetch
\* rejected, an error status, no or an unknown points array, under 2 points
BackendFailed ==
    /\ backendOutcome # "none"
    /\ \/ ~backendResp.net
       \/ ~backendResp.ok
       \/ backendResp.shape \in {"missing", "unknown"}
       \/ Len(backendResp.pts) <= 1

BackendSkipped == distanceKm # NoDistance /\ distanceKm > 50

(***************************************************************************)
(* C3: whenever a routing request ends with a safe route displayed, the    *)
(* route's first point is the requested start coordinate and its last      *)
(* point the requested end coordinate, whichever source supplied the path. *)
(***************************************************************************)
DisplayedRouteJoinsRequest ==
    (rpc = "done" /\ RouteDisplayed) =>
        safeRoute[1] = oCoords /\ Last(safeRoute) = dCoords

EmptyRouteIsAnError ==
    (/\ backendOutcome # "none"
     /\ backendResp.net /\ backendResp.ok
     /\ backendResp.shape # "missing"
     /\ Len(backendResp.pts) = 0) =>
        backendOutcome = "threw"

(***************************************************************************)
(* C6: a request whose start-end distance exceeds the ceiling (50 km in    *)
(* the client) never triggers a safe-route search: the decision is made    *)
(* before any search request is issued.                                    *)
(***************************************************************************)
NoSearchBeyondCeiling ==
    BackendSkipped =>
        /\ backendCalls = 0
        /\ rpc # "backend"
        /\ backendOutcome = "none"

\* an over-distance request that finished with the Google route displayed
NoSearchBeyondCeilingWitness ==
    /\ rpc = "done"
    /\ distanceKm = 51
    /\ backendCalls = 0
    /\ RouteDisplayed

(***************************************************************************)
(* Vocabulary of the clustering claims                                     *)
(***************************************************************************)
IncIdx == 1..Len(incidents)

\* the eps-neighbourhood of incident i has at least minPoints incidents
Dense(i) == Len(NeighborsOf(incidents, incidents[i], epsilon)) >= minPoints

Near(i, j) == WithinEps(incidents[i], incidents[j], epsilon)

MemberIds(c) == {clusters[c].incidents[k].id : k \in 1..Len(clusters[c].incidents)}

InSomeCluster(i) == \E c \in 1..Len(clusters) : incidents[i].id \in MemberIds(c)

\* dense itself, or within eps of a dense incident
Qualifies(i) == Dense(i) \/ \E j \in IncIdx : Dense(j) /\ Near(i, j)

(***************************************************************************)
(* C7: after performDBSCAN, for every input order, an incident is left out *)
(* of every cluster only if it never qualifies: it is not dense and lies   *)
(* within eps of no dense incident.                                        *)
(***************************************************************************)
LeftOutOnlyIfNeverQualifies ==
    dpc = "done" => \A i \in IncIdx : ~InSomeCluster(i) => ~Qualifies(i)

(***************************************************************************)
(* C8: every member of a returned cluster is dense or within eps of a      *)
(* dense member of the same cluster; an incident with no dense incident    *)
(* within eps is in no cluster.                                            *)
(***************************************************************************)
MembersAreCoreOrBorder ==
    dpc = "done" =>
        /\ \A c \in 1..Len(clusters) : \A i \in IncIdx :
              incidents[i].id \in MemberIds(c) =>
                  \/ Dense(i)
                  \/ \E j \in IncIdx : /\ incidents[j].id \in MemberIds(c)
                                       /\ Dense(j)
                                       /\ Near(i, j)
        /\ \A i \in IncIdx :
              (\A j \in IncIdx : Near(i, j) => ~Dense(j)) => ~InSomeCluster(i)

\* a run that returned a cluster with a border member and left a noise
\* incident out
MembersAreCoreOrBorderWitness ==
    /\ dpc = "done"
    /\ \E c \in 1..Len(clusters) : \E i \in IncIdx :
          incidents[i].id \in MemberIds(c) /\ ~Dense(i)
    /\ \E i \in IncIdx : ~Qualifies(i) /\ ~InSomeCluster(i)

(***************************************************************************)
(* C9: three incidents within 150 m of one another and a fourth 5 km away, *)
(* eps = 150 m and minPoints = 3, give exactly one cluster holding exactly *)
(* the three close incidents, centred on their coordinate mean (to the     *)
(* micro-degree); the fourth incident is in no cluster.                    *)
(***************************************************************************)
SitesOf(s) == {Site(s[k].latitude, s[k].longitude) : k \in 1..Len(s)}

IsScenario ==
    /\ Len(incidents) = 4
    /\ SitesOf(incidents) = ScenarioSites
    /\ epsilon = 150
    /\ minPoints = 3

ScenarioOneHotspot ==
    (dpc = "done" /\ IsScenario) =>
        /\ Len(clusters) = 1
        /\ Len(clusters[1].incidents) = 3
        /\ SitesOf(clusters[1].incidents) = {ScenarioA, ScenarioB, ScenarioC}
        /\ clusters[1].lat =
             (ScenarioA.latitude + ScenarioB.latitude + ScenarioC.latitude) \div 3
        /\ clusters[1].lng =
             (ScenarioA.longitude + ScenarioB.longitude + ScenarioC.longitude) \div 3
        /\ \A i \in IncIdx :
              Site(incidents[i].latitude, incidents[i].longitude) = ScenarioFar
                  => ~InSomeCluster(i)

ScenarioOneHotspotWitness ==
    /\ dpc = "done"
    /\ IsScenario
    /\ Len(clusters) = 1
    /\ clusters[1].lat = 12971033
    /\ clusters[1].lng = 77594000

(***************************************************************************)
(* C10: an incident with malformed coordinates (NaN, latitude outside      *)
(* [-90,90], longitude outside [-180,180]) is rejected individually: it is *)
(* in no cluster, counts toward no other incident's neighbourhood, and the *)
(* remaining incidents are clustered as if it were absent.                 *)
(***************************************************************************)
MalformedRejected ==
    dpc = "done" =>
        /\ \A i \in IncIdx : ~WellFormed(incidents[i]) =>
              /\ ~InSomeCluster(i)
              /\ \A j \in IncIdx \ {i} : ~Near(j, i)
        /\ clusters = performDBSCAN(SelectSeq(incidents, WellFormed),
                                    epsilon, minPoints)

(***************************************************************************)
(* Vocabulary of the risk claims                                           *)
(***************************************************************************)
\* hotspot h's radius contains path point p
Covers(p, h) ==
    computeDistanceBetween(p, Pt(h.lat, h.lng)) < Nullish(h.radius, defaultRadius)

\* the (path point, hotspot) pairs where the hotspot covers the point
CoveringPairs ==
    {pr \in (1..Len(riskPath)) \X (1..Len(riskField)) :
        Covers(riskPath[pr[1]], riskField[pr[2]])}

RECURSIVE SumIntensities(_)
SumIntensities(S) ==
    IF S = {} THEN 0
    ELSE LET pr == CHOOSE x \in S : TRUE
         IN  Nullish(riskField[pr[2]].intensity, 1) + SumIntensities(S \ {pr})

\* the contribution of crime hotspot k to the risk of riskLocation
Contribution(k) ==
    effectiveRisk(riskLocation.lat, riskLocation.lng, crimeHotspots[k])

\* the crime hotspots whose radius contains riskLocation
Containing ==
    {k \in 1..Len(crimeHotspots) :
        Contribution(k) # Undefined /\ ~IsNaN(Contribution(k))}

RECURSIVE SumContributions(_)
SumContributions(S) ==
    IF S = {} THEN 0
    ELSE LET k == CHOOSE x \in S : TRUE
         IN  Contribution(k) + SumContributions(S \ {k})

LargestContribution ==
    IF Containing = {} THEN 0
    ELSE LET k == CHOOSE x \in Containing :
                      \A y \in Containing : Contribution(y) <= Contribution(x)
         IN  Contribution(k)

PathScoreIsSum ==
    kpc = "scored" => pathScore = SumIntensities(CoveringPairs)

(***************************************************************************)
(* C12 as stated: the risk computed for a point inside the radius of       *)
(* several hotspots is the sum of the contributions of every hotspot whose *)
(* radius contains it, for the path score as for the risk level of a       *)
(* location.                                                               *)
(***************************************************************************)
RiskOfPointIsSum ==
    /\ PathScoreIsSum
    /\ lpc = "done" => locationRisk.riskLevel = RiskLevelOf(SumContributions(Containing))

(***************************************************************************)
(* C12 amended: scorePath adds up the intensity of every hotspot whose     *)
(* radius contains a path point; calculateRiskForLocation grades a         *)
(* location by the single largest distance-decayed contribution among the  *)
(* hotspots whose radius contains it.                                      *)
(***************************************************************************)
RiskOfPointSumOrLargest ==
    /\ PathScoreIsSum
    /\ lpc = "done" => locationRisk.riskLevel = RiskLevelOf(LargestContribution)

\* a location inside two hotspots whose contributions add up to a higher
\* risk level than the largest of them has
RiskOfPointSumOrLargestWitness ==
    /\ lpc = "done"
    /\ Cardinality(Containing) >= 2
    /\ RiskLevelOf(SumContributions(Containing)) # RiskLevelOf(LargestContribution)

(***************************************************************************)
(* C13: for a fixed path and non-negative intensities, scorePath is 0 when *)
(* no hotspot covers any path point, is never negative, and does not       *)
(* decrease when a hotspot is added or an intensity is raised.             *)
(***************************************************************************)
ScoreMonotone ==
    /\ [](kpc = "scored" => /\ pathScore >= 0
                            /\ CoveringPairs = {} => pathScore = 0)
    /\ [][pathScore # Undefined => pathScore' >= pathScore]_vars

\* a positive score taken after the set grew to MaxField and the intensity
\* of a hotspot that covers a path point was raised
ScoreMonotoneWitness ==
    /\ kpc = "scored"
    /\ pathScore > 0
    /\ Len(riskField) = MaxField
    /\ \E k \in 1..Len(riskField) :
          /\ riskField[k] \notin FieldPool
          /\ \E i \in 1..Len(riskPath) : Covers(riskPath[i], riskField[k])

(***************************************************************************)
(* C14: all the Google alternatives scored within one handleGoClick        *)
(* invocation are scored against one and the same hotspot list, a whole    *)
(* list published by a single setHotspots call, also when a hotspot        *)
(* refresh arrives while the request is in flight.                         *)
(***************************************************************************)
ScoredAgainstOneHotspotSet ==
    \E hs \in published :
        /\ Len(scoredRoutes) = Len(googleRoute.routes)
        /\ \A k \in 1..Len(scoredRoutes) :
              /\ scoredRoutes[k].pathPoints = googleRoute.routes[k]
              /\ scoredRoutes[k].score = scorePath(googleRoute.routes[k], hs)

\* two alternatives were scored after a refresh replaced the list in
\* flight by one under which the first alternative scores differently
ScoredAgainstOneHotspotSetWitness ==
    /\ Len(scoredRoutes) = 2
    /\ hotspotLoads = 1
    /\ hotspots # scoringHotspots
    /\ scoredRoutes[1].score # scorePath(scoredRoutes[1].pathPoints, hotspots)
    /\ scoredRoutes[2].score # scoredRoutes[1].score

(***************************************************************************)
(* Vocabulary of the Stage 1 claim                                         *)
(***************************************************************************)
\* the angle between the segments a -> b and b -> c, in 0 .. PiAngle
DirectionChange(a, b, c) ==
    LET d == Abs(Atan2(b.lat - a.lat, b.lng - a.lng)
                 - Atan2(c.lat - b.lat, c.lng - b.lng))
    IN  IF d > PiAngle THEN 2 * PiAngle - d ELSE d

RECURSIVE KeptByNeighbours(_)
\* the interior points from index i on whose direction change, measured
\* against the neighbours in points, is not below the threshold
KeptByNeighbours(i) ==
    IF i > Len(points) - 1 THEN <<>>
    ELSE (IF DirectionChange(points[i - 1], points[i], points[i + 1]) < AngleThreshold
          THEN <<>> ELSE <<points[i]>>) \o KeptByNeighbours(i + 1)

(***************************************************************************)
(* C15: Stage 1 of smoothPath drops an interior point exactly when the     *)
(* direction change between its incoming and outgoing segments, measured   *)
(* relative to its neighbouring points in the input, is below 0.087 rad,   *)
(* and keeps it otherwise.                                                 *)
(***************************************************************************)
DropsBelowThreshold ==
    (spc = "done" /\ Len(points) >= 2) =>
        simplifiedPath = <<points[1]>> \o KeptByNeighbours(2) \o <<Last(points)>>

(***************************************************************************)
(* Vocabulary of the Smart SOS claims                                      *)
(***************************************************************************)
LiveTimers == {t \in 1..MaxTimers : timers[t].live}

\* the last step was an onSOSDetected call by a countdown timer
AutomaticSOS == lastSOS.by = "timer"

(***************************************************************************)
(* C16: once cancelCountdown has been called during a countdown, no        *)
(* automatic SOS fires from a detection made before the cancel:            *)
(* onSOSDetected is invoked only by a countdown that a later detection     *)
(* started.                                                                *)
(***************************************************************************)
NoSOSAfterCancel ==
    AutomaticSOS => ~lastSOS.cancelled

(***************************************************************************)
(* C17: a countdown that is not cancelled, with the modal open, reaches 0  *)
(* after ten ticks and then invokes onSOSDetected exactly once, and that   *)
(* call sends the SOS request: a timer's call of onSOSDetected is its      *)
(* first and its handleSendSOS posts the request.                          *)
(***************************************************************************)
CountdownSendsOneSOS ==
    (AutomaticSOS /\ ~lastSOS.cancelled /\ lastSOS.open) =>
        (lastSOS.sent /\ ~lastSOS.again)

(***************************************************************************)
(* C18: automatic SOS only while Smart SOS is enabled: whenever the toggle *)
(* is off, no countdown is running, and onSOSDetected is not invoked.      *)
(***************************************************************************)
OnlyWhileEnabled ==
    /\ (modal = "open" /\ ~smartSOSEnabled) =>
           (LiveTimers = {} /\ ~state.isCountingDown)
    /\ (AutomaticSOS /\ lastSOS.open) => lastSOS.enabled

(***************************************************************************)
(* C19: after the modal has been closed (the hook is unmounted) no         *)
(* countdown timer remains and none is started, and onSOSDetected is not   *)
(* invoked, whenever a pending microphone permission request resolves.     *)
(***************************************************************************)
NothingAfterClose ==
    /\ modal = "closed" => LiveTimers = {}
    /\ AutomaticSOS => lastSOS.open

(***************************************************************************)
(* C20: detections are debounced: after a shake has triggered, no further  *)
(* shake triggers within 3 seconds, and after a loud sound has triggered,  *)
(* no further loud sound triggers within 3 seconds.                        *)
(***************************************************************************)
ClaimedDebounceMs == 3000

DebouncedDetections ==
    [][ /\ lastDetection' = "shake" => sinceShake * TimeStep >= ClaimedDebounceMs
        /\ lastDetection = "audio" => lastDetection' # "audio" ]_vars

(***************************************************************************)
(* Vocabulary of the proximity risk claim                                  *)
(***************************************************************************)
\* every hotspot of the argument within radiusMeters of the user
AllWithin ==
    FilterWithin(MapDistance(userPos[1], userPos[2], nearHotspots, 1),
                 radiusMeters, 1)

(***************************************************************************)
(* C21: calculateProximityRisk returns the sum, over all hotspots within   *)
(* radiusMeters of the user, of risk x (1 - distance / radiusMeters),      *)
(* however many such hotspots there are.                                   *)
(***************************************************************************)
ProximityRiskSumsAllWithin ==
    ppc = "done" => proximityRisk = ReduceTotal(AllWithin, radiusMeters, 1, 0)

(***************************************************************************)
(* C22: chat history is isolated per user: what a session restores was     *)
(* written by sessions of the same e-mail, and a session never changes     *)
(* the history stored for a different e-mail.                              *)
(***************************************************************************)
HistoryIsolatedPerUser ==
    /\ [](user # NoUser =>
            \A k \in 1..Len(messages) : messages[k].by \in {user, NoUser})
    /\ [][\A e \in Emails :
            (user # NoUser /\ user # e) =>
                localStorage'[StorageKey(e)] = localStorage[StorageKey(e)]]_vars

(***************************************************************************)
(* C23: at most one countdown timer is live at any time, also when a       *)
(* detection arrives before the component has re-rendered, and             *)
(* countdownIntervalRef refers to the live timer.                          *)
(***************************************************************************)
OneCountdownTimer ==
    /\ Cardinality(LiveTimers) <= 1
    /\ LiveTimers # {} => LiveTimers = {countdownIntervalRef}

(***************************************************************************)
(* C24: while the SOS tab is the active tab the new-alerts badge does not  *)
(* stay set: whenever hasNewAlerts is true there, it is cleared later      *)
(* unless the user has left the tab.                                       *)
(***************************************************************************)
BadgeClearedWhileViewing ==
    (activeTab = "sos" /\ hasNewAlerts) ~> (~hasNewAlerts \/ activeTab # "sos")

(***************************************************************************)
(* C25: a safeFetch call makes at most maxRetries + 1 attempts, each       *)
(* abandoned after at most 8 seconds, waits only between attempts, and     *)
(* ends by returning the JSON of a response or throwing the last error.    *)
(***************************************************************************)
SafeFetchBounded ==
    /\ attempt <= maxRetries
    /\ sfPhase \in {"fetching", "reading"} => elapsed * StepMs <= FetchTimeoutMs
    /\ sfPhase = "waiting" => attempt < maxRetries
    /\ sfPhase = "threw" => (attempt = maxRetries /\ sfResult.error = lastError)
    /\ sfPhase = "returned" => sfResult.outcome = "returned"
====
